---- MODULE Spec2Model ----
(***************************************************************************)
(* Model of the polling loops of src/bot.py (seven paper-trading           *)
(* strategies over one ledger) and src/momentum_15.py (one strategy with   *)
(* authenticated order placement).                                         *)
(*                                                                         *)
(* Units.  Money and contract counts are integers in units of 1e-4         *)
(* (the precision of every round(x, 4) of the source): 1 USD = 10000.      *)
(* Asks arrive in cents and are divided by 100 (bot.py:304), i.e. one cent *)
(* is 100 units.  Fractions configured in the environment (risk, fee) are  *)
(* whole percents.  Times are whole seconds.  Market tickers are the       *)
(* integers 1, 2, ... in the order in which the series opens them; 0 is    *)
(* None.  An empty CSV cell / unset optional number is the empty tuple.    *)
(* Float arithmetic is modelled by exact arithmetic; for asks of 1..99     *)
(* cents the float results of the source coincide with it, except for     *)
(* int(price * 100) in momentum_15.py (see PriceCents).                    *)
(***************************************************************************)
EXTENDS Integers, Sequences, FiniteSets, TLC

\* ---------------------------------------------------------------- bounds
MaxCycles == 3       \* poll cycles explored in one behaviour
MaxFaults == 1       \* abnormal events injected in one behaviour: failed or
                     \* degenerate external responses, process stops

\* ------------------------------------------------------ program constants
POLL_SECONDS == 5
STAKE_USD == 50000
MOMENTUM_WINDOW_SECONDS == 60
MOMENTUM_15_WINDOW_SECONDS == 900
DEAL_MAX_PRICE == 4500
ARBITRAGE_MAX_BET_USD == 100000
ARBITRAGE_BET_EPSILON == 1
INITIAL_BANKROLL_USD == 5000000
CONSENSUS_RISK_PCT == 1
CONSENSUS_MAX_RISK_PCT == 2
CONSENSUS_MAX_PRICE == 5500
MIN_STAKE_USD == 100
SECONDS_PER_DAY == 86400
DAYS_PER_WEEK == 7
CENT == 100
ONE_CONTRACT == 10000

NoTicker == 0
NoValue == << >>
Val(x) == << x >>
FloatOf(cell) == cell[1]
Sides == {"yes", "no"}
Opposite(side) == IF side = "yes" THEN "no" ELSE "yes"
Min(a, b) == IF a <= b THEN a ELSE b
Max(a, b) == IF a >= b THEN a ELSE b
\* round(a / b, 4-style) to the nearest unit; no a/b of the model is a tie
RoundDiv(a, b) == (2 * a + b) \div (2 * b)

\* Environment-configured values (bot.py:24-31, momentum_15.py:263).
\* DefaultConfig holds the defaults of the source; TightConfig is an
\* environment that sets a 3% fee, 1R/2R loss caps and a rolling window of 2.
DefaultConfig ==
    [ CONSENSUS_FEE_PCT |-> 0, CONSENSUS_ROLLING_WINDOW |-> 30,
      CONSENSUS_DAILY_LOSS_CAP_R |-> 3, CONSENSUS_WEEKLY_LOSS_CAP_R |-> 8,
      CONSENSUS_MAX_PRICE |-> CONSENSUS_MAX_PRICE, DRY_RUN |-> TRUE ]
TightConfig ==
    [ CONSENSUS_FEE_PCT |-> 3, CONSENSUS_ROLLING_WINDOW |-> 2,
      CONSENSUS_DAILY_LOSS_CAP_R |-> 1, CONSENSUS_WEEKLY_LOSS_CAP_R |-> 2,
      CONSENSUS_MAX_PRICE |-> CONSENSUS_MAX_PRICE, DRY_RUN |-> FALSE ]
\* an environment with CONSENSUS_MAX_PRICE=0.30, below DEAL_MAX_PRICE
LowPriceConfig == [DefaultConfig EXCEPT !.CONSENSUS_MAX_PRICE = 3000]

VARIABLES
    variant,          \* which program runs: bot.py or momentum_15.py
    config,           \* its environment configuration
    now,              \* wall clock (seconds); datetime.now of the cycle
    result,           \* exchange: ticker -> "" | "yes" | "no" (market.result)
    openIdx,          \* exchange: ticker of the next-expiring open market
    orders,           \* place_order calls made, with their fate (momentum_15.py)
    csv,              \* the ledger file TRADES_CSV
    trades,           \* in-memory list of trade rows
    traded_keys,      \* bot.py: decided (strategy, ticker) pairs
    traded_tickers,   \* momentum_15.py: decided tickers
    signals,          \* bot.py: ticker -> strategy -> side or "none"
    arb_positions,    \* bot.py: ticker -> first-leg position
    current_ticker,
    pending_previous,
    btc_prices,       \* deque of <<time, price>>
    pc,               \* position of the loop body
    market,           \* the cycle's market snapshot (ticker, yes_ask, no_ask)
    scanned,          \* indices of trades looked up by the cycle's settlement scan
    skip_log,         \* bot.py: the cycle's "[CONSENSUS...] Skip/Waiting" line
    cycles,           \* polls so far
    faults,           \* abnormal events so far
    budget,           \* abnormal events the run may see
    call,             \* the last function applied on its own, with its value
    pid               \* number of the running process (1 + restarts so far)

vars == << variant, config, now, result, openIdx, orders, csv, trades,
           traded_keys, traded_tickers, signals, arb_positions, current_ticker,
           pending_previous, btc_prices, pc, market, scanned, skip_log,
           cycles, faults, budget,
           call, pid >>

\* ------------------------------------------------------------ trade rows
\* The dict built at bot.py:394-407 (and 443-456, 484-497, 589-604, 626-639,
\* 692-707, 724-737, 761-774) and momentum_15.py:455-469.
NewTrade(time, strategy, previous_ticker, previous_result, ticker, side, stake, price, contracts, order_id) ==
    [ time |-> time, strategy |-> strategy,
      previous_ticker |-> previous_ticker, previous_result |-> previous_result,
      buy_ticker |-> ticker, buy_side |-> side,
      stake_usd |-> Val(stake), price_usd |-> Val(price),
      contracts |-> Val(contracts),
      fee_usd |-> NoValue, gross_profit_usd |-> NoValue, order_id |-> order_id,
      outcome |-> "", payout_usd |-> NoValue, profit_usd |-> NoValue ]

\* csv.DictWriter writes the columns of `fieldnames` only: bot.py has no
\* order_id column, momentum_15.py no fee_usd / gross_profit_usd columns.
CsvRow(v, t) ==
    IF v = "bot" THEN [t EXCEPT !.order_id = ""]
    ELSE [t EXCEPT !.fee_usd = NoValue, !.gross_profit_usd = NoValue]

\* save_trades writes nothing for an empty list, else rewrites the whole file.
SavedFile(v, ts, file) ==
    IF ts = << >> THEN file ELSE [i \in DOMAIN ts |-> CsvRow(v, ts[i])]

\* load_trades: the rows of the file (an absent file is the empty list).
load_trades(file) == file

\* (a faulty variant: an unsettled market reads as settled "yes")
get_settled_side_or_yes(res) == IF res \in Sides THEN res ELSE "yes"
\* get_settled_side
get_settled_side(res) == IF res \in Sides THEN res ELSE "none"

\* yes_ask / no_ask of the snapshot for a side
AskOf(m, side) == IF side = "yes" THEN m.yes_ask ELSE m.no_ask

\* contracts = STAKE_USD / price if price > 0 else 0, then round(contracts, 4)
FixedStakeContracts(price) ==
    IF price > 0 THEN RoundDiv(STAKE_USD * ONE_CONTRACT, price) ELSE 0

\* ------------------------------------------------------------ settlement
\* bot.py:336-350 / momentum_15.py:365-375: the fields written on settlement.
\* A faulty variant: the fee charged to every strategy.
FeeForAll(v, cfg, t, stake) == RoundDiv(stake * cfg.CONSENSUS_FEE_PCT, 100)
FeeFor(v, cfg, t, stake) ==
    IF v = "bot" /\ t.strategy \in {"CONSENSUS", "CONSENSUS_2"}
    THEN RoundDiv(stake * cfg.CONSENSUS_FEE_PCT, 100) ELSE 0


\* A faulty variant: the outcome written without the payout and profit.
SettleTradeOutcomeOnly(v, cfg, t, res) ==
    [t EXCEPT !.outcome = IF res = t.buy_side THEN "WIN" ELSE "LOSS"]
\* (a faulty variant: the settlement also rewrites the stake)
SettleTradeRewritesStake(v, cfg, t, res) ==
    [t EXCEPT !.outcome = IF res = t.buy_side THEN "WIN" ELSE "LOSS",
              !.payout_usd = Val(0), !.profit_usd = Val(0),
              !.stake_usd = Val(0)]
SettleTrade(v, cfg, t, res) ==
    LET contracts == FloatOf(t.contracts)
        stake == FloatOf(t.stake_usd)
        won == (res = t.buy_side)
        payout == IF won THEN contracts ELSE 0
        gross_profit == payout - stake
        fee == FeeFor(v, cfg, t, stake)
        profit == gross_profit - fee
    IN  IF v = "bot"
        THEN [t EXCEPT !.outcome = IF won THEN "WIN" ELSE "LOSS",
                       !.payout_usd = Val(payout),
                       !.gross_profit_usd = Val(gross_profit),
                       !.fee_usd = Val(fee),
                       !.profit_usd = Val(profit)]
        ELSE [t EXCEPT !.outcome = IF won THEN "WIN" ELSE "LOSS",
                       !.payout_usd = Val(payout),
                       !.profit_usd = Val(profit)]

\* Rows the scan looks up: no outcome yet and a buy_ticker.
\* (a faulty variant: every row, settled or not)
PendingIdxAll(ts) == DOMAIN ts
PendingIdx(ts) ==
    {i \in DOMAIN ts : ts[i].outcome = "" /\ ts[i].buy_ticker # NoTicker}

\* One pass of the settlement loop (bot.py:324-356, momentum_15.py:353-382):
\* every pending row is looked up; a lookup that raises (i \in failed) is
\* swallowed by the inner except and the loop goes on.  The result is the new
\* list and the rows that were looked up.
\* A faulty variant: the try around the whole loop, so that the first failed
\* lookup ends the scan.
ScanAbortsOnFailure(v, cfg, ts, res, failed) ==
    LET reached == {i \in PendingIdx(ts) : \A j \in failed : j >= i}
    IN  [ trades |->
            [i \in DOMAIN ts |->
                IF /\ i \in reached
                   /\ i \notin failed
                   /\ get_settled_side(res[ts[i].buy_ticker]) # "none"
                THEN SettleTrade(v, cfg, ts[i], res[ts[i].buy_ticker])
                ELSE ts[i]],
          queried |-> reached ]

ScanTrades(v, cfg, ts, res, failed) ==
    [ trades |->
        [i \in DOMAIN ts |->
            IF /\ i \in PendingIdx(ts)
               /\ i \notin failed
               /\ get_settled_side(res[ts[i].buy_ticker]) # "none"
            THEN SettleTrade(v, cfg, ts[i], res[ts[i].buy_ticker])
            ELSE ts[i]],
      queried |-> PendingIdx(ts) ]

\* ---------------------------------------------------------- risk manager
RECURSIVE SumProfit(_)
SumProfit(ts) ==
    IF ts = << >> THEN 0 ELSE FloatOf(Head(ts).profit_usd) + SumProfit(Tail(ts))

\* (a faulty variant: the strategy filter dropped)
IsSettledAny(t) == t.outcome # ""
IsSettledConsensus(t) ==
    t.strategy \in {"CONSENSUS", "CONSENSUS_2"} /\ t.outcome # ""

settled_consensus(ts) == SelectSeq(ts, IsSettledConsensus)

consensus_bankroll(ts) == INITIAL_BANKROLL_USD + SumProfit(settled_consensus(ts))

\* datetime.date() and the (ISO year, ISO week) pair of a timestamp: ISO
\* weeks start on Monday and 1970-01-01 was a Thursday.
DateOf(t) == t \div SECONDS_PER_DAY
EPOCH_WEEKDAY == 3
IsoWeekOf(t) == (DateOf(t) + EPOCH_WEEKDAY) \div DAYS_PER_WEEK

SameDay(t, time) == DateOf(t.time) = DateOf(time)
SameWeek(t, time) == IsoWeekOf(t.time) = IsoWeekOf(time)

consensus_period_pnl(ts, time) ==
    LET settled == settled_consensus(ts)
    IN  [ daily |-> SumProfit(SelectSeq(settled, LAMBDA t : SameDay(t, time))),
          weekly |-> SumProfit(SelectSeq(settled, LAMBDA t : SameWeek(t, time))) ]
\* Fractions are records [num, den] with den > 0.
Frac(n, d) == [num |-> n, den |-> d]
FracLess(a, b) == a.num * b.den < b.num * a.den
Abs(x) == IF x < 0 THEN -x ELSE x
\* (a faulty variant: settled[:N], the oldest N rows)
FirstN(seq, n) ==
    IF Len(seq) <= n THEN seq ELSE SubSeq(seq, 1, n)
\* settled[-N:]
LastN(seq, n) ==
    IF Len(seq) <= n THEN seq ELSE SubSeq(seq, Len(seq) - n + 1, Len(seq))

RECURSIVE SumSeq(_)
SumSeq(xs) == IF xs = << >> THEN 0 ELSE Head(xs) + SumSeq(Tail(xs))

\* rolling_consensus_metrics (bot.py:188-218)
rolling_consensus_metrics(cfg, ts) ==
    LET settled == settled_consensus(ts)
        window == LastN(settled, cfg.CONSENSUS_ROLLING_WINDOW)
        profits == [i \in DOMAIN window |-> FloatOf(window[i].profit_usd)]
        wins == SelectSeq(profits, LAMBDA p : p > 0)
        losses == SelectSeq(profits, LAMBDA p : p <= 0)
        sample_size == Len(window)
        \* avg_win = sum(wins)/len(wins), avg_loss = |sum(losses)/len(losses)|
        winSum == SumSeq(wins)
        lossSum == Abs(SumSeq(losses))
        beNum == lossSum * Len(wins)
        beDen == winSum * Len(losses) + lossSum * Len(wins)
    IN  IF settled = << >>
        THEN [sample_size |-> 0, win_rate |-> Frac(0, 1),
              break_even_win_rate |-> Frac(1, 1)]
        ELSE [sample_size |-> sample_size,
              win_rate |-> Frac(Len(wins), sample_size),
              break_even_win_rate |->
                  IF wins # << >> /\ losses # << >>
                  THEN (IF beDen # 0 THEN Frac(beNum, beDen) ELSE Frac(1, 1))
                  ELSE IF wins # << >> THEN Frac(0, 1)
                  ELSE Frac(1, 1)]

\* r_value = max(bankroll * CONSENSUS_RISK_PCT, 0.01), in 1e-6 USD
\* (bot.py:535, 655)
RValue(bankroll) == Max(bankroll * CONSENSUS_RISK_PCT, MIN_STAKE_USD * 100)

\* day_pnl <= -daily_cap / week_pnl <= -weekly_cap (bot.py:539, 546, 659, 665)
\* (a faulty variant: < in place of <=)
LossCapHitStrict(pnl, capR, bankroll) == pnl * 100 < -(capR * RValue(bankroll))
LossCapHit(pnl, capR, bankroll) == pnl * 100 <= -(capR * RValue(bankroll))

\* (a faulty variant: the gate never rejects)
RollingGateNever(cfg, ts) == FALSE
\* (a faulty variant: the sample size is not tested)
RollingGateHitAnySample(cfg, ts) ==
    FracLess(rolling_consensus_metrics(cfg, ts).win_rate,
             rolling_consensus_metrics(cfg, ts).break_even_win_rate)
\* rolling["sample_size"] >= CONSENSUS_ROLLING_WINDOW and
\* rolling["win_rate"] < rolling["break_even_win_rate"] (bot.py:555-558, 673-676)
RollingGateHit(cfg, ts) ==
    LET rolling == rolling_consensus_metrics(cfg, ts)
    IN  /\ rolling.sample_size >= cfg.CONSENSUS_ROLLING_WINDOW
        /\ FracLess(rolling.win_rate, rolling.break_even_win_rate)

\* stake = min(max(target_stake, 0.01), max_stake, bankroll), in 1e-6 USD
\* (bot.py:567-569, 684-686)
\* (a faulty variant: the stake is the per-trade maximum)
SizedStakeAtMax(bankroll) ==
    Min(bankroll * CONSENSUS_MAX_RISK_PCT, bankroll * 100)
SizedStake(bankroll) ==
    LET target_stake == bankroll * CONSENSUS_RISK_PCT
        max_stake == bankroll * CONSENSUS_MAX_RISK_PCT
    IN  Min(Min(Max(target_stake, MIN_STAKE_USD * 100), max_stake), bankroll * 100)

\* int(x / price) for x in 1e-6 USD and price in 1e-4 USD (int truncates to 0)
IntDiv(x, price) ==
    IF x >= 0 THEN x \div (price * 100) ELSE -((-x) \div (price * 100))
\* ------------------------------------------------------- momentum signal
\* (a faulty variant: only the oldest sample at or before the cutoff is kept)
OldPricesOldest(prices, cutoff) ==
    LET old == SelectSeq(prices, LAMBDA s : s[1] <= cutoff)
    IN  IF old = << >> THEN old ELSE << Head(old) >>
\* old_prices = [(t, p) for t, p in btc_prices if t <= cutoff]
OldPrices(prices, cutoff) == SelectSeq(prices, LAMBDA s : s[1] <= cutoff)
Last(seq) == seq[Len(seq)]
\* (a faulty variant: a tie buys "yes")
MomentumSideTieYes(current_price, old_price) ==
    IF current_price >= old_price THEN "yes" ELSE "no"
\* side = "yes" if current_price > old_price else "no"
MomentumSide(current_price, old_price) ==
    IF current_price > old_price THEN "yes" ELSE "no"

\* `pending_previous and ...` / `if not pending_previous: continue`
\* (bot.py:418, 466; momentum_15.py:398)
\* (a faulty variant: the momentum blocks do not wait for a rollover)
HasPreviousAlways(pending) == TRUE
HasPrevious(pending) == pending # NoTicker

\* deque(maxlen=btc_history_len).append
BtcHistoryLen(v) ==
    IF v = "bot"
    THEN Max(100, MOMENTUM_15_WINDOW_SECONDS \div Max(POLL_SECONDS, 1) + 20)
    ELSE Max(200, MOMENTUM_15_WINDOW_SECONDS \div Max(POLL_SECONDS, 1) + 30)
DequeAppend(v, prices, sample) ==
    LET all == Append(prices, sample)
    IN  IF Len(all) > BtcHistoryLen(v) THEN Tail(all) ELSE all

\* ------------------------------------------------------------ decided set
\* (strategy, ticker) not in traded_keys, negated
\* (a faulty variant: the membership test dropped)
DecidedNever(keys, strategy, ticker) == FALSE
Decided(keys, strategy, ticker) == << strategy, ticker >> \in keys

\* traded_keys / traded_tickers as rebuilt from the loaded rows at start-up
\* (bot.py:247-250, momentum_15.py:297)
KeysOf(ts) ==
    {<< ts[i].strategy, ts[i].buy_ticker >> :
        i \in {j \in DOMAIN ts : ts[j].buy_ticker # NoTicker}}
TickersOf(ts) ==
    {ts[i].buy_ticker : i \in {j \in DOMAIN ts : ts[j].buy_ticker # NoTicker}}

\* ------------------------------------------------------------ environment
Tickers == 1..(MaxCycles + 1)
\* markets that closed before the run started; the first three settled
\* "yes", the last three "no"
OldTickers == (-6)..(-1)
OldResult(t) == IF t <= -4 THEN "yes" ELSE "no"
\* the length of a market
QuarterHour == MOMENTUM_15_WINDOW_SECONDS
Week == DAYS_PER_WEEK * SECONDS_PER_DAY
NoMarket == [ticker |-> NoTicker, yes_ask |-> 0, no_ask |-> 0]
NoScan == [queried |-> {}, failed |-> {}]
NoLog == << >>
NoCall == [fn |-> "none"]
NoSignals == [PREVIOUS |-> "none", MOMENTUM |-> "none", MOMENTUM_15 |-> "none"]
\* Saturday 1970-01-10 23:45:00 UTC: the run crosses one midnight inside an
\* ISO week
StartTime == 10 * SECONDS_PER_DAY - MOMENTUM_15_WINDOW_SECONDS
\* seconds between the datetime.now() of two consecutive cycles
Delays == {MOMENTUM_WINDOW_SECONDS, MOMENTUM_15_WINDOW_SECONDS}
\* spot prices returned by the feed
BtcQuotes == {100, 101}
\* (yes_ask, no_ask) in cents as listed by the exchange; MissingAsk is a
\* listing without a yes_ask (market.get("yes_ask", 0))
AskPairs == { << 62, 40 >>, << 40, 55 >> }
MissingAsk == << 0, 50 >>
MarketOf(ticker, asks) ==
    [ticker |-> ticker, yes_ask |-> asks[1] * CENT, no_ask |-> asks[2] * CENT]

CanFail == faults < budget
SaveOutcomes == IF CanFail THEN {TRUE, FALSE} ELSE {TRUE}

\* Ledger files left by an earlier run of bot.py: settled CONSENSUS and
\* CONSENSUS_2 rows on old markets, each a "yes" bought with the stake the
\* sizing rule gives (1% of a bankroll of about 500 USD).
OldRow(cfg, strategy, ticker, time, cents, count) ==
    CsvRow("bot",
           SettleTrade("bot", cfg,
                       NewTrade(time, strategy, NoTicker, "PREV=MOM", ticker,
                                "yes", count * cents * CENT, cents * CENT,
                                count * ONE_CONTRACT, ""),
                       OldResult(ticker)))
EmptyLedger == << >>
\* two losses of 12 contracts at 0.40 under TightConfig, written at `time`
LossesAt(time) ==
    << OldRow(TightConfig, "CONSENSUS", -1, time, 40, 12),
       OldRow(TightConfig, "CONSENSUS_2", -1, time, 40, 12) >>
LossesToday == LossesAt(StartTime - QuarterHour)
LossesLastWeek == LossesAt(StartTime - Week)
\* under DefaultConfig, three wins of 5 USD last week and three losses of
\* 5 USD today: a bankroll of 500 USD and a daily P&L of -15 USD
WinsThenLosses ==
    << OldRow(DefaultConfig, "CONSENSUS", -6, StartTime - Week - 3 * QuarterHour, 50, 10),
       OldRow(DefaultConfig, "CONSENSUS", -5, StartTime - Week - 2 * QuarterHour, 50, 10),
       OldRow(DefaultConfig, "CONSENSUS", -4, StartTime - Week - QuarterHour, 50, 10),
       OldRow(DefaultConfig, "CONSENSUS", -3, StartTime - 3 * QuarterHour, 50, 10),
       OldRow(DefaultConfig, "CONSENSUS", -2, StartTime - 2 * QuarterHour, 50, 10),
       OldRow(DefaultConfig, "CONSENSUS", -1, StartTime - QuarterHour, 50, 10) >>

\* The program that runs, its environment configuration, the ledger file it
\* finds and the abnormal events of the run.
Setup(v, cfg, ledger, n) ==
    [variant |-> v, config |-> cfg, ledger |-> ledger, budget |-> n]
Setups == { Setup("bot", TightConfig, EmptyLedger, MaxFaults),
            Setup("momentum_15", DefaultConfig, EmptyLedger, MaxFaults),
            Setup("momentum_15", TightConfig, EmptyLedger, MaxFaults),
            Setup("bot", TightConfig, LossesToday, 0),
            Setup("bot", TightConfig, LossesLastWeek, 0),
            Setup("bot", DefaultConfig, WinsThenLosses, 0),
            Setup("bot", LowPriceConfig, EmptyLedger, 0) }

Init ==
    /\ \E setup \in Setups :
          /\ variant = setup.variant
          /\ config = setup.config
          /\ csv = setup.ledger
          /\ budget = setup.budget
    /\ now = StartTime
    /\ result = [t \in Tickers \cup OldTickers |->
                     IF t \in OldTickers THEN OldResult(t) ELSE ""]
    /\ openIdx = 1
    /\ orders = << >>
    /\ trades = load_trades(csv)
    /\ traded_keys = IF variant = "bot" THEN KeysOf(trades) ELSE {}
    /\ traded_tickers = IF variant = "bot" THEN {} ELSE TickersOf(trades)
    /\ signals = << >>
    /\ arb_positions = << >>
    /\ current_ticker = NoTicker
    /\ pending_previous = NoTicker
    /\ btc_prices = << >>
    /\ pc = "top"
    /\ market = NoMarket
    /\ scanned = NoScan
    /\ skip_log = NoLog
    /\ cycles = 0
    /\ faults = 0
    /\ call = NoCall
    /\ pid = 1

\* The exchange closes the open market and opens its successor (between two
\* polls of the loop).
Rollover ==
    /\ pc = "top"
    /\ cycles < MaxCycles
    /\ openIdx <= cycles
    /\ openIdx' = openIdx + 1
    /\ UNCHANGED << pid, call, budget, skip_log, variant, config, now, result, orders, csv,
                    trades,
                    traded_keys, traded_tickers, signals, arb_positions,
                    current_ticker, pending_previous, btc_prices, pc, market,
                    scanned, cycles, faults >>

\* The exchange settles a market that is no longer open.
SettleMarket ==
    /\ pc = "top"
    /\ cycles < MaxCycles
    /\ \E t \in 1..(openIdx - 1), side \in Sides :
        /\ result[t] = ""
        /\ result' = [result EXCEPT ![t] = side]
    /\ UNCHANGED << pid, call, budget, skip_log, variant, config, now, openIdx, orders, csv,
                    trades,
                    traded_keys, traded_tickers, signals, arb_positions,
                    current_ticker, pending_previous, btc_prices, pc, market,
                    scanned, cycles, faults >>

\* get_btc_price: a quote, or an exception (ok = FALSE)
FeedResults ==
    {[ok |-> TRUE, price |-> q] :
        q \in IF btc_prices = << >> THEN {100} ELSE BtcQuotes}
        \cup (IF CanFail THEN {[ok |-> FALSE, price |-> 0]} ELSE {})

\* get_open_market: the next-expiring open market, or abnormally: a listing
\* that lacks an ask, None (nothing open), or an exception.
Listings ==
    {[kind |-> "market", market |-> MarketOf(openIdx, a)] : a \in AskPairs}
        \cup (IF CanFail
              THEN {[kind |-> "market", market |-> MarketOf(openIdx, MissingAsk)],
                    [kind |-> "none", market |-> NoMarket],
                    [kind |-> "raise", market |-> NoMarket]}
              ELSE {})
IsFault(listing) ==
    listing.kind # "market" \/ listing.market.yes_ask = 0

\* Detect market change (bot.py:315-320, momentum_15.py:345-349):
\* pending_previous after the cycle has observed `ticker`.
\* (a faulty variant: the new identifier is taken as the previous one)
TrackedPreviousNew(current, pending, ticker) ==
    IF current # NoTicker /\ ticker # current THEN ticker ELSE pending
TrackedPrevious(current, pending, ticker) ==
    IF current # NoTicker /\ ticker # current THEN current ELSE pending

\* Top of the loop body up to the market-change detection
\* (bot.py:286-320, momentum_15.py:317-350).
Poll ==
    /\ pc = "top"
    /\ cycles < MaxCycles
    /\ cycles' = cycles + 1
    /\ \E dt \in (IF cycles = 0 THEN {0} ELSE Delays),
          feed \in FeedResults, listing \in Listings :
        LET nfail == (IF feed.ok THEN 0 ELSE 1)
                     + (IF IsFault(listing) THEN 1 ELSE 0)
            ticker == listing.market.ticker
        IN  /\ faults + nfail <= budget
            /\ faults' = faults + nfail
            /\ now' = now + dt
            /\ btc_prices' =
                  IF feed.ok
                  THEN DequeAppend(variant, btc_prices, << now', feed.price >>)
                  ELSE btc_prices
            /\ IF listing.kind # "market"
               THEN /\ pc' = "top"
                    /\ UNCHANGED << market, signals, current_ticker,
                                    pending_previous >>
               ELSE /\ market' = listing.market
                    /\ signals' =
                          IF variant = "bot" /\ ticker \notin DOMAIN signals
                          THEN signals @@ (ticker :> NoSignals)
                          ELSE signals
                    /\ current_ticker' = ticker
                    /\ pending_previous' =
                          TrackedPrevious(current_ticker, pending_previous, ticker)
                    /\ pc' = IF variant = "bot" THEN "scan" ELSE "scan_15"
    /\ scanned' = NoScan
    /\ skip_log' = NoLog
    /\ UNCHANGED << pid, call, budget, variant, config, result, openIdx, orders, csv, trades,
                    traded_keys, traded_tickers, arb_positions >>

\* Settlement scan and the save that follows it
\* (bot.py:322-359, momentum_15.py:352-385).  A failed save raises to the
\* outer except, which ends the cycle.
SettlementScan ==
    /\ pc \in {"scan", "scan_15"}
    /\ \E failed \in SUBSET PendingIdx(trades), saveOk \in SaveOutcomes :
        LET scan == ScanTrades(variant, config, trades, result, failed)
            after == scan.trades
            updated == after # trades
            nfail == Cardinality(failed) + (IF updated /\ ~saveOk THEN 1 ELSE 0)
        IN  /\ faults + nfail <= budget
            /\ ~updated => saveOk
            /\ faults' = faults + nfail
            /\ trades' = after
            /\ scanned' = [queried |-> scan.queried, failed |-> failed]
            /\ csv' = IF updated /\ saveOk
                      THEN SavedFile(variant, after, csv) ELSE csv
            /\ pc' = IF updated /\ ~saveOk THEN "top"
                     ELSE IF variant = "bot" THEN "previous" ELSE "decide_15"
            /\ market' = IF pc' = "top" THEN NoMarket ELSE market
    /\ UNCHANGED << pid, call, budget, skip_log, variant, config, now, result, openIdx, orders,
                    traded_keys,
                    traded_tickers, signals, arb_positions, current_ticker,
                    pending_previous, btc_prices, cycles >>

\* The process is stopped and started again: main() up to the loop
\* (bot.py:242-263, momentum_15.py:294-303).
Restart ==
    /\ pc = "top"
    /\ cycles < MaxCycles
    /\ CanFail
    /\ faults' = faults + 1
    /\ trades' = load_trades(csv)
    /\ traded_keys' = IF variant = "bot" THEN KeysOf(trades') ELSE {}
    /\ traded_tickers' = IF variant = "bot" THEN {} ELSE TickersOf(trades')
    /\ signals' = << >>
    /\ arb_positions' = << >>
    /\ current_ticker' = NoTicker
    /\ pending_previous' = NoTicker
    /\ btc_prices' = << >>
    /\ pc' = "top"
    /\ market' = NoMarket
    /\ scanned' = NoScan
    /\ skip_log' = NoLog
    /\ pid' = pid + 1
    /\ UNCHANGED << call, budget, variant, config, now, result, openIdx, orders, csv, cycles >>
\* ------------------------------------------------- momentum_15.py decision
\* int(price * 100): the float product falls just below the integer for
\* 0.29, 0.57 and 0.58, and int() truncates.
PriceCents(price) ==
    LET c == price \div CENT
    IN  IF c \in {29, 57, 58} THEN c - 1 ELSE c

\* contracts = int(STAKE_USD / price); if contracts < 1: contracts = 1
OrderContracts(price) == Max(STAKE_USD \div price, 1)

\* (a faulty variant: dry_run is ignored)
OrderOutcomesLive(cfg) ==
    {[ok |-> TRUE, sent |-> TRUE, id |-> "ORDER"]}
    \cup (IF CanFail
          THEN {[ok |-> FALSE, sent |-> TRUE, id |-> ""],
                [ok |-> FALSE, sent |-> FALSE, id |-> ""]}
          ELSE {})
\* place_order outcomes: in a dry run a simulated order and no request;
\* otherwise the request is sent and either answered or an exception is
\* raised, before or after the exchange received it.
OrderOutcomes(cfg) ==
    IF cfg.DRY_RUN THEN {[ok |-> TRUE, sent |-> FALSE, id |-> "DRY-RUN"]}
    ELSE {[ok |-> TRUE, sent |-> TRUE, id |-> "ORDER"]}
         \cup (IF CanFail
               THEN {[ok |-> FALSE, sent |-> TRUE, id |-> ""],
                     [ok |-> FALSE, sent |-> FALSE, id |-> ""]}
               ELSE {})

\* traded_tickers.add(ticker), after the save and in the except clause
\* (momentum_15.py:472, 476)
\* (a faulty variant: a failed order leaves the market undecided)
MarkedOnSuccess(tickers, ticker, order) ==
    IF order.ok THEN tickers \cup {ticker} ELSE tickers
MarkedAfterOrder(tickers, ticker, order) == tickers \cup {ticker}

\* momentum_15.py:397-479
Decide15 ==
    /\ pc = "decide_15"
    /\ pc' = "top"
    /\ market' = NoMarket
    /\ scanned' = NoScan
    /\ LET ticker == market.ticker
           cutoff == now - MOMENTUM_15_WINDOW_SECONDS
           old_prices == OldPrices(btc_prices, cutoff)
           old_price == Last(old_prices)[2]
           current_price == Last(btc_prices)[2]
           side == MomentumSide(current_price, old_price)
           price == AskOf(market, side)
           contracts == OrderContracts(price)
           stake_actual == contracts * price
       IN  IF ~HasPrevious(pending_previous) \/ ticker \in traded_tickers
              \/ old_prices = << >>
           THEN UNCHANGED << orders, csv, trades, traded_tickers,
                             pending_previous, faults >>
           ELSE IF price <= 0
           THEN /\ traded_tickers' = traded_tickers \cup {ticker}
                /\ UNCHANGED << orders, csv, trades, pending_previous, faults >>
           ELSE \E order \in OrderOutcomes(config), saveOk \in SaveOutcomes :
                LET trade == NewTrade(now, "MOMENTUM_15", pending_previous, "BTC15",
                                      ticker, side, stake_actual, price,
                                      contracts * ONE_CONTRACT, order.id)
                    nfail == (IF order.ok THEN 0 ELSE 1)
                             + (IF order.ok /\ ~saveOk THEN 1 ELSE 0)
                IN  /\ faults + nfail <= budget
                    /\ ~order.ok => saveOk
                    /\ faults' = faults + nfail
                    /\ orders' = Append(orders,
                                        [ticker |-> ticker, side |-> side,
                                         count |-> contracts,
                                         price_cents |-> PriceCents(price),
                                         sent |-> order.sent, ok |-> order.ok,
                                         pid |-> pid])
                    /\ traded_tickers' = MarkedAfterOrder(traded_tickers, ticker, order)
                    /\ trades' = IF order.ok THEN Append(trades, trade) ELSE trades
                    /\ csv' = IF order.ok /\ saveOk
                              THEN SavedFile(variant, trades', csv) ELSE csv
                    /\ pending_previous' = IF order.ok /\ saveOk
                                           THEN NoTicker ELSE pending_previous
    /\ UNCHANGED << pid, call, budget, skip_log, variant, config, now, result, openIdx,
                    traded_keys, signals,
                    arb_positions, current_ticker, btc_prices, cycles >>

\* ------------------------------------------------------ bot.py strategies
\* trades.append(trade); save_trades(trades); traded_keys.add(key): a save
\* that raises leaves the row in memory and ends the cycle in the outer
\* except, before the key is added.
AppendAndMark(trade, strategy, saveOk, nextpc) ==
    /\ trades' = Append(trades, trade)
    /\ csv' = IF saveOk THEN SavedFile(variant, trades', csv) ELSE csv
    /\ traded_keys' = IF saveOk
                      THEN traded_keys \cup {<< strategy, trade.buy_ticker >>}
                      ELSE traded_keys
    /\ faults' = faults + (IF saveOk THEN 0 ELSE 1)
    /\ pc' = IF saveOk THEN nextpc ELSE "top"
    /\ market' = IF saveOk THEN market ELSE NoMarket
    /\ UNCHANGED skip_log

\* A strategy block that does nothing this cycle.
PassTo(nextpc) ==
    /\ pc' = nextpc
    /\ UNCHANGED << csv, trades, traded_keys, faults, market, skip_log >>

\* traded_keys.add(key); print(reason); time.sleep; continue
SkipAndContinue(strategy, reason) ==
    /\ traded_keys' = traded_keys \cup {<< strategy, market.ticker >>}
    /\ skip_log' = << strategy, reason >>
    /\ pc' = "top"
    /\ market' = NoMarket
    /\ UNCHANGED << csv, trades, faults >>

\* (a faulty variant: the rejection marks the pair)
WaitAndMark(strategy, reason) ==
    /\ traded_keys' = traded_keys \cup {<< strategy, market.ticker >>}
    /\ skip_log' = << strategy, reason >>
    /\ pc' = "top"
    /\ market' = NoMarket
    /\ UNCHANGED << csv, trades, faults >>
\* print(reason); time.sleep; continue without marking the pair
WaitAndContinue(strategy, reason) ==
    /\ skip_log' = << strategy, reason >>
    /\ pc' = "top"
    /\ market' = NoMarket
    /\ UNCHANGED << csv, trades, traded_keys, faults >>

FixedStakeTrade(strategy, previous_ticker, previous_result, side) ==
    LET price == AskOf(market, side)
    IN  NewTrade(now, strategy, previous_ticker, previous_result, market.ticker,
                 side, STAKE_USD, price, FixedStakeContracts(price), "")

\* STRATEGY 1: PREVIOUS (bot.py:382-414).  get_market(pending_previous) is
\* not guarded: an exception ends the cycle.
StrategyPrevious ==
    /\ pc = "previous"
    /\ scanned' = NoScan
    /\ IF pending_previous = NoTicker \/ Decided(traded_keys, "PREVIOUS", market.ticker)
       THEN PassTo("momentum") /\ UNCHANGED signals
       ELSE \E lookupOk \in SaveOutcomes :
            IF ~lookupOk
            THEN /\ faults' = faults + 1
                 /\ pc' = "top"
                 /\ market' = NoMarket
                 /\ UNCHANGED << csv, trades, traded_keys, signals >>
            ELSE LET settled == get_settled_side(result[pending_previous])
                 IN  IF settled = "none"
                     THEN PassTo("momentum") /\ UNCHANGED signals
                     ELSE /\ signals' = [signals EXCEPT ![market.ticker].PREVIOUS = settled]
                          /\ \E saveOk \in SaveOutcomes :
                               AppendAndMark(
                                   FixedStakeTrade("PREVIOUS", pending_previous,
                                                   settled, settled),
                                   "PREVIOUS", saveOk, "momentum")
    /\ UNCHANGED << pid, call, budget, skip_log, variant, config, now, result, openIdx, orders,
                    traded_tickers,
                    arb_positions, current_ticker, pending_previous, btc_prices,
                    cycles >>

\* STRATEGY 2 / 2B: MOMENTUM and MOMENTUM_15 (bot.py:416-502)
MomentumBlock(strategy, window, tag, nextpc) ==
    LET cutoff == now - window
        old_prices == OldPrices(btc_prices, cutoff)
        old_price == Last(old_prices)[2]
        current_price == Last(btc_prices)[2]
        side == MomentumSide(current_price, old_price)
    IN  IF \/ ~HasPrevious(pending_previous)
           \/ Decided(traded_keys, strategy, market.ticker)
           \/ Len(btc_prices) < 2
           \/ old_prices = << >>
        THEN PassTo(nextpc) /\ UNCHANGED signals
        ELSE /\ signals' = [signals EXCEPT ![market.ticker][strategy] = side]
             /\ \E saveOk \in SaveOutcomes :
                  AppendAndMark(
                      FixedStakeTrade(strategy, pending_previous, tag, side),
                      strategy, saveOk, nextpc)

StrategyMomentum ==
    /\ pc = "momentum"
    /\ MomentumBlock("MOMENTUM", MOMENTUM_WINDOW_SECONDS, "BTC", "momentum_15")
    /\ UNCHANGED << pid, call, budget, skip_log, variant, config, now, result, openIdx, orders,
                    traded_tickers,
                    arb_positions, current_ticker, pending_previous, btc_prices,
                    scanned, cycles >>

StrategyMomentum15 ==
    /\ pc = "momentum_15"
    /\ MomentumBlock("MOMENTUM_15", MOMENTUM_15_WINDOW_SECONDS, "BTC15", "consensus")
    /\ UNCHANGED << pid, call, budget, skip_log, variant, config, now, result, openIdx, orders,
                    traded_tickers,
                    arb_positions, current_ticker, pending_previous, btc_prices,
                    scanned, cycles >>

\* The checks of the CONSENSUS block in source order (bot.py:514-585):
\* the name of the first check that rejects, or "ok".
ConsensusCheck(cfg, ts, time, price) ==
    LET bankroll == consensus_bankroll(ts)
        pnl == consensus_period_pnl(ts, time)
        contracts == IntDiv(SizedStake(bankroll), price)
        max_contracts == IntDiv(bankroll * CONSENSUS_MAX_RISK_PCT, price)
    IN  IF price <= 0 THEN "invalid price"
        ELSE IF price > cfg.CONSENSUS_MAX_PRICE THEN "max price"
        ELSE IF bankroll <= 0 THEN "bankroll depleted"
        ELSE IF LossCapHit(pnl.daily, cfg.CONSENSUS_DAILY_LOSS_CAP_R, bankroll)
        THEN "daily loss cap"
        ELSE IF LossCapHit(pnl.weekly, cfg.CONSENSUS_WEEKLY_LOSS_CAP_R, bankroll)
        THEN "weekly loss cap"
        ELSE IF RollingGateHit(cfg, ts) THEN "rolling win rate"
        ELSE IF contracts < 1 THEN "stake too small"
        ELSE IF Min(contracts, max_contracts) < 1 THEN "max risk"
        ELSE "ok"

\* contracts = min(int(stake / price), int(max_stake / price)) (bot.py:570-580)
ConsensusContracts(ts, price) ==
    LET bankroll == consensus_bankroll(ts)
    IN  Min(IntDiv(SizedStake(bankroll), price),
            IntDiv(bankroll * CONSENSUS_MAX_RISK_PCT, price))

\* The checks of the CONSENSUS_2 block in source order (bot.py:652-690).
Consensus2Check(cfg, ts, time, price) ==
    LET bankroll == consensus_bankroll(ts)
        pnl == consensus_period_pnl(ts, time)
    IN  IF ~(0 < price /\ price <= DEAL_MAX_PRICE) THEN "no deal"
        ELSE IF ~(bankroll > 0) THEN "bankroll depleted"
        ELSE IF LossCapHit(pnl.daily, cfg.CONSENSUS_DAILY_LOSS_CAP_R, bankroll)
        THEN "daily loss cap"
        ELSE IF LossCapHit(pnl.weekly, cfg.CONSENSUS_WEEKLY_LOSS_CAP_R, bankroll)
        THEN "weekly loss cap"
        ELSE IF RollingGateHit(cfg, ts) THEN "rolling win rate"
        ELSE "ok"

\* bot.py:687-689
Consensus2Contracts(ts, price) ==
    LET bankroll == consensus_bankroll(ts)
        max_stake == bankroll * CONSENSUS_MAX_RISK_PCT
        contracts == IntDiv(SizedStake(bankroll), price)
        max_contracts == IF max_stake > 0 THEN IntDiv(max_stake, price) ELSE 0
    IN  IF max_contracts > 0 THEN Min(contracts, max_contracts) ELSE contracts

SizedTrade(strategy, side, contracts) ==
    LET price == AskOf(market, side)
    IN  NewTrade(now, strategy, NoTicker, "PREV=MOM", market.ticker, side,
                 contracts * price, price, contracts * ONE_CONTRACT, "")

\* (a faulty variant: the MOMENTUM signal is not compared)
AgreeWithoutMomentum(sig) == sig.PREVIOUS # "none"
\* prev_signal and mom_signal and prev_signal == mom_signal (bot.py:510, 649)
Agree(sig) ==
    sig.PREVIOUS # "none" /\ sig.MOMENTUM # "none" /\ sig.PREVIOUS = sig.MOMENTUM
Disagree(sig) ==
    sig.PREVIOUS # "none" /\ sig.MOMENTUM # "none" /\ sig.PREVIOUS # sig.MOMENTUM

\* STRATEGY 3: CONSENSUS (bot.py:504-617)
StrategyConsensus ==
    /\ pc = "consensus"
    /\ LET sig == signals[market.ticker]
           side == sig.PREVIOUS
           price == AskOf(market, side)
           verdict == ConsensusCheck(config, trades, now, price)
       IN  IF Decided(traded_keys, "CONSENSUS", market.ticker)
           THEN PassTo("previous_2")
           ELSE IF Agree(sig)
           THEN IF verdict # "ok"
                THEN SkipAndContinue("CONSENSUS", verdict)
                ELSE \E saveOk \in SaveOutcomes :
                       AppendAndMark(
                           SizedTrade("CONSENSUS", side,
                                      ConsensusContracts(trades, price)),
                           "CONSENSUS", saveOk, "previous_2")
           ELSE IF Disagree(sig)
           THEN /\ traded_keys' = traded_keys \cup {<< "CONSENSUS", market.ticker >>}
                /\ pc' = "previous_2"
                /\ UNCHANGED << csv, trades, faults, market, skip_log >>
           ELSE PassTo("previous_2")
    /\ UNCHANGED << pid, call, budget, variant, config, now, result, openIdx, orders, traded_tickers,
                    signals, arb_positions, current_ticker, pending_previous,
                    btc_prices, scanned, cycles >>

\* (a faulty variant: any positive price is a deal)
IsDealAny(price) == 0 < price
\* if 0 < price <= DEAL_MAX_PRICE (bot.py:624)
IsDeal(price) == 0 < price /\ price <= DEAL_MAX_PRICE

\* STRATEGY 4: PREVIOUS_2 (bot.py:619-643)
StrategyPrevious2 ==
    /\ pc = "previous_2"
    /\ LET prev_signal == signals[market.ticker].PREVIOUS
           price == AskOf(market, prev_signal)
       IN  IF /\ ~Decided(traded_keys, "PREVIOUS_2", market.ticker)
              /\ prev_signal # "none"
              /\ IsDeal(price)
           THEN \E saveOk \in SaveOutcomes :
                  AppendAndMark(
                      FixedStakeTrade("PREVIOUS_2", pending_previous, prev_signal,
                                      prev_signal),
                      "PREVIOUS_2", saveOk, "consensus_2")
           ELSE PassTo("consensus_2")
    /\ UNCHANGED << pid, call, budget, skip_log, variant, config, now, result, openIdx, orders,
                    traded_tickers,
                    signals, arb_positions, current_ticker, pending_previous,
                    btc_prices, scanned, cycles >>

\* STRATEGY 5: CONSENSUS_2 (bot.py:645-716)
StrategyConsensus2 ==
    /\ pc = "consensus_2"
    /\ LET sig == signals[market.ticker]
           side == sig.PREVIOUS
           price == AskOf(market, side)
           verdict == Consensus2Check(config, trades, now, price)
           contracts == Consensus2Contracts(trades, price)
       IN  IF Decided(traded_keys, "CONSENSUS_2", market.ticker)
           THEN PassTo("arbitrage")
           ELSE IF Agree(sig)
           THEN IF verdict \in {"daily loss cap", "weekly loss cap", "rolling win rate"}
                THEN WaitAndContinue("CONSENSUS_2", verdict)
                ELSE IF verdict = "ok" /\ contracts >= 1
                THEN \E saveOk \in SaveOutcomes :
                       AppendAndMark(SizedTrade("CONSENSUS_2", side, contracts),
                                     "CONSENSUS_2", saveOk, "arbitrage")
                ELSE PassTo("arbitrage")
           ELSE IF Disagree(sig)
           THEN /\ traded_keys' = traded_keys \cup {<< "CONSENSUS_2", market.ticker >>}
                /\ pc' = "arbitrage"
                /\ UNCHANGED << csv, trades, faults, market, skip_log >>
           ELSE PassTo("arbitrage")
    /\ UNCHANGED << pid, call, budget, variant, config, now, result, openIdx, orders, traded_tickers,
                    signals, arb_positions, current_ticker, pending_previous,
                    btc_prices, scanned, cycles >>

\* first_side = "yes" if yes_ask <= no_ask else "no" (bot.py:721)
FirstSide(m) == IF m.yes_ask <= m.no_ask THEN "yes" ELSE "no"

\* STRATEGY 6: ARBITRAGE first leg (bot.py:718-747)
StrategyArbitrage ==
    /\ pc = "arbitrage"
    /\ LET first_side == FirstSide(market)
           first_price == AskOf(market, first_side)
       IN  IF /\ ~Decided(traded_keys, "ARBITRAGE", market.ticker)
              /\ market.yes_ask > 0 /\ market.no_ask > 0
           THEN \E saveOk \in SaveOutcomes :
                  /\ AppendAndMark(
                         FixedStakeTrade("ARBITRAGE", NoTicker, "first_leg", first_side),
                         "ARBITRAGE", saveOk, "hedge")
                  /\ arb_positions' =
                        IF saveOk
                        THEN (market.ticker :>
                                 [side |-> first_side, price |-> first_price,
                                  contracts |-> Frac(STAKE_USD, first_price),
                                  hedged |-> FALSE]) @@ arb_positions
                        ELSE arb_positions
           ELSE PassTo("hedge") /\ UNCHANGED arb_positions
    /\ UNCHANGED << pid, call, budget, skip_log, variant, config, now, result, openIdx, orders,
                    traded_tickers,
                    signals, current_ticker, pending_previous, btc_prices, scanned,
                    cycles >>

\* (a faulty variant: the edge is not tested)
HedgeEdgeAny(first_price, opposite_price) == opposite_price > 0
\* edge = 1.0 - (pos["price"] + opposite_price); opposite_price > 0 and edge > 0
HedgeEdge(first_price, opposite_price) ==
    opposite_price > 0 /\ ONE_CONTRACT - (first_price + opposite_price) > 0

\* hedge_contracts = min(int(pos["contracts"]),
\*                       int((ARBITRAGE_MAX_BET_USD - 0.0001) / opposite_price))
HedgeContracts(pos, opposite_price) ==
    Min(pos.contracts.num \div pos.contracts.den,
        (ARBITRAGE_MAX_BET_USD - ARBITRAGE_BET_EPSILON) \div opposite_price)

\* opposite_side = "no" if pos["side"] == "yes" else "yes" (bot.py:753)
\* (a faulty variant: the side of the first leg again)
HedgeSideSame(pos) == pos.side
HedgeSide(pos) == Opposite(pos.side)

\* ARBITRAGE hedge leg (bot.py:749-783)
StrategyHedge ==
    /\ pc = "hedge"
    /\ IF /\ ~Decided(traded_keys, "ARBITRAGE_HEDGE", market.ticker)
          /\ market.ticker \in DOMAIN arb_positions
          /\ ~arb_positions[market.ticker].hedged
          /\ HedgeEdge(arb_positions[market.ticker].price,
                       AskOf(market, HedgeSide(arb_positions[market.ticker])))
          /\ HedgeContracts(arb_positions[market.ticker],
                            AskOf(market, HedgeSide(arb_positions[market.ticker]))) >= 1
       THEN LET pos == arb_positions[market.ticker]
                opposite_side == HedgeSide(pos)
                opposite_price == AskOf(market, opposite_side)
                hedge_contracts == HedgeContracts(pos, opposite_price)
            IN  \E saveOk \in SaveOutcomes :
                  /\ AppendAndMark(
                         NewTrade(now, "ARBITRAGE_HEDGE", NoTicker, "hedge_of",
                                  market.ticker, opposite_side,
                                  hedge_contracts * opposite_price, opposite_price,
                                  hedge_contracts * ONE_CONTRACT, ""),
                         "ARBITRAGE_HEDGE", saveOk, "clear")
                  /\ arb_positions' =
                        IF saveOk
                        THEN [arb_positions EXCEPT ![market.ticker].hedged = TRUE]
                        ELSE arb_positions
       ELSE PassTo("clear") /\ UNCHANGED arb_positions
    /\ UNCHANGED << pid, call, budget, skip_log, variant, config, now, result, openIdx, orders,
                    traded_tickers,
                    signals, current_ticker, pending_previous, btc_prices, scanned,
                    cycles >>

\* Clear pending_previous after both PREVIOUS and MOMENTUM have traded, then
\* sleep (bot.py:785-789).
ClearPending ==
    /\ pc = "clear"
    /\ pending_previous' =
          IF /\ pending_previous # NoTicker
             /\ Decided(traded_keys, "PREVIOUS", market.ticker)
             /\ Decided(traded_keys, "MOMENTUM", market.ticker)
          THEN NoTicker ELSE pending_previous
    /\ pc' = "top"
    /\ market' = NoMarket
    /\ UNCHANGED << pid, call, budget, skip_log, variant, config, now, result, openIdx, orders,
                    csv, trades,
                    traded_keys, traded_tickers, signals, arb_positions,
                    current_ticker, btc_prices, scanned, cycles, faults >>

Next ==
    \/ Poll
    \/ Rollover
    \/ SettleMarket
    \/ SettlementScan
    \/ Restart
    \/ Decide15
    \/ StrategyPrevious
    \/ StrategyMomentum
    \/ StrategyMomentum15
    \/ StrategyConsensus
    \/ StrategyPrevious2
    \/ StrategyConsensus2
    \/ StrategyArbitrage
    \/ StrategyHedge
    \/ ClearPending

Spec == Init /\ [][Next]_vars

\* ------------------------------------------- the risk functions on their own
\* The functions of the Risk Manager applied to the rows load_trades can
\* return from any trades file of at most MaxRows rows: settled risk-managed
\* rows with a profit drawn from FnProfits, a settled fixed-stake row and an
\* unsettled risk-managed row.
MaxRows == 3
FnProfits == { -INITIAL_BANKROLL_USD, -5 * 100 * CENT, 0, 5 * 100 * CENT, 10 * 100 * CENT }
FnStrategyOf(profit) == IF profit = 5 * 100 * CENT THEN "CONSENSUS_2" ELSE "CONSENSUS"
\* the first row is two weeks old, the second of yesterday, the third of today
FnRowTime(k) ==
    IF k = 1 THEN StartTime - 2 * Week
    ELSE IF k = 2 THEN StartTime - SECONDS_PER_DAY
    ELSE StartTime - QuarterHour
FnSettledRow(strategy, k, profit) ==
    [ NewTrade(FnRowTime(k), strategy, NoTicker, "PREV=MOM", -k,
               "yes", 10 * 50 * CENT, 50 * CENT, 10 * ONE_CONTRACT, "")
      EXCEPT !.outcome = IF profit > 0 THEN "WIN" ELSE "LOSS",
             !.profit_usd = Val(profit) ]
FnRows(k) ==
    { FnSettledRow(FnStrategyOf(p), k, p) : p \in FnProfits }
    \cup { FnSettledRow("PREVIOUS", k, 10 * 100 * CENT),
           NewTrade(FnRowTime(k), "CONSENSUS", NoTicker, "PREV=MOM",
                    -k, "yes", 10 * 50 * CENT, 50 * CENT, 10 * ONE_CONTRACT, "") }

InitFn ==
    /\ variant = "bot"
    /\ config \in {DefaultConfig, TightConfig}
    /\ csv = EmptyLedger
    /\ budget = 0
    /\ now = StartTime
    /\ result = [t \in Tickers \cup OldTickers |->
                     IF t \in OldTickers THEN OldResult(t) ELSE ""]
    /\ openIdx = 1
    /\ orders = << >>
    /\ trades = << >>
    /\ traded_keys = {}
    /\ traded_tickers = {}
    /\ signals = << >>
    /\ arb_positions = << >>
    /\ current_ticker = NoTicker
    /\ pending_previous = NoTicker
    /\ btc_prices = << >>
    /\ pc = "fn"
    /\ market = NoMarket
    /\ scanned = NoScan
    /\ skip_log = NoLog
    /\ cycles = 0
    /\ faults = 0
    /\ call = NoCall
    /\ pid = 1

FnUnchanged ==
    UNCHANGED << variant, config, csv, budget, now, result, openIdx, orders,
                 traded_keys, traded_tickers, signals, arb_positions,
                 current_ticker, pending_previous, btc_prices, pc, market,
                 scanned, skip_log, cycles, faults, pid >>

\* load_trades returns one more row
ReadRow ==
    /\ pc = "fn"
    /\ Len(trades) < MaxRows
    /\ \E row \in FnRows(Len(trades) + 1) : trades' = Append(trades, row)
    /\ call' = NoCall
    /\ FnUnchanged

\* rolling = rolling_consensus_metrics(trades) (bot.py:554, 672)
CallRolling ==
    /\ pc = "fn"
    /\ call' = [ fn |-> "rolling_consensus_metrics",
                 value |-> rolling_consensus_metrics(config, trades) ]
    /\ UNCHANGED trades
    /\ FnUnchanged

\* The sizing of the hedge leg (bot.py:755-759) for a first leg of STAKE_USD
\* bought at first_price and an opposite ask of opposite_price.
FnFirstPrices == {30 * CENT, 40 * CENT}
FnOppositePrices == {0, 40 * CENT, 55 * CENT, 65 * CENT, 70 * CENT}
CallHedge ==
    /\ pc = "fn"
    /\ \E first_price \in FnFirstPrices, opposite_price \in FnOppositePrices :
          LET pos == [side |-> "yes", price |-> first_price,
                      contracts |-> Frac(STAKE_USD, first_price), hedged |-> FALSE]
          IN  call' = [ fn |-> "hedge", first_price |-> first_price,
                        opposite_price |-> opposite_price,
                        value |-> IF HedgeEdge(first_price, opposite_price)
                                  THEN HedgeContracts(pos, opposite_price) ELSE 0 ]
    /\ UNCHANGED trades
    /\ FnUnchanged

\* The Risk Manager of the CONSENSUS block (bot.py:513-585) and of the
\* CONSENSUS_2 block (bot.py:651-690) for a candidate at `price`.
FnPrices == {0, 40 * CENT, 62 * CENT}
CallRiskCheck ==
    /\ pc = "fn"
    /\ \E price \in FnPrices :
          call' = [ fn |-> "risk_check", price |-> price,
                    gate |-> RollingGateHit(config, trades),
                    consensus |-> ConsensusCheck(config, trades, now, price),
                    consensus_2 |-> Consensus2Check(config, trades, now, price),
                    contracts_2 |-> IF Consensus2Check(config, trades, now, price) = "ok"
                                    THEN Consensus2Contracts(trades, price) ELSE 0 ]
    /\ UNCHANGED trades
    /\ FnUnchanged

\* float(t.get("profit_usd", 0)) and the like: the default 0 stands in only
\* for a column that the file does not have; an empty cell is read as ""
\* and float("") raises ValueError (bot.py:161, 178, 199, 337, 338).
float_raises(cell) == cell = NoValue

\* consensus_bankroll(trades) (bot.py:158-164): the sum raises when the
\* profit cell of a settled risk-managed row cannot be parsed.
BankrollCall(ts) ==
    IF \E i \in DOMAIN ts :
          IsSettledConsensus(ts[i]) /\ float_raises(ts[i].profit_usd)
    THEN [raised |-> TRUE, value |-> 0]
    ELSE [raised |-> FALSE, value |-> consensus_bankroll(ts)]

\* The body of the settlement loop for one pending row whose market has
\* settled (bot.py:331-356): float() of contracts and stake is inside the
\* try, so an exception is swallowed and the row is left as it was.
SettleCall(v, cfg, t, res) ==
    IF float_raises(t.contracts) \/ float_raises(t.stake_usd)
    THEN t
    ELSE SettleTrade(v, cfg, t, res)

\* The ledger as loaded with the profit cell of row k empty (k = 0: the
\* rows as they are).
BlankProfit(ts, k) ==
    IF k = 0 THEN ts ELSE [ts EXCEPT ![k].profit_usd = NoValue]
\* bankroll = consensus_bankroll(trades) (bot.py:369, 523, 653)
CallBankroll ==
    /\ pc = "fn"
    /\ \E k \in {0} \cup DOMAIN trades :
          call' = [ fn |-> "consensus_bankroll", blank |-> k,
                    rows |-> BlankProfit(trades, k),
                    raised |-> BankrollCall(BlankProfit(trades, k)).raised,
                    value |-> BankrollCall(BlankProfit(trades, k)).value ]
    /\ UNCHANGED trades
    /\ FnUnchanged

\* One pending fixed-stake row on a settled market, with its stake or its
\* contracts cell empty or both filled, goes through the settlement loop.
FnBlankFields == {"none", "stake_usd", "contracts"}
FnPendingRow(field) ==
    LET t == NewTrade(StartTime - QuarterHour, "PREVIOUS", -2, "yes", -1, "yes",
                      STAKE_USD, 50 * CENT, 10 * ONE_CONTRACT, "")
    IN  IF field = "stake_usd" THEN [t EXCEPT !.stake_usd = NoValue]
        ELSE IF field = "contracts" THEN [t EXCEPT !.contracts = NoValue]
        ELSE t
CallSettle ==
    /\ pc = "fn"
    /\ \E field \in FnBlankFields :
          call' = [ fn |-> "settle", blank |-> field,
                    before |-> FnPendingRow(field),
                    after |-> SettleCall(variant, config, FnPendingRow(field),
                                         result[-1]) ]
    /\ UNCHANGED trades
    /\ FnUnchanged

\* The settlement of one pending row as the strategy blocks record it: a
\* fixed-stake row bought at an ask of 0.40 or 0.62, or at the price 0 that
\* PREVIOUS and MOMENTUM record for a side without an ask (bot.py:390-408),
\* and a risk-managed row of 12 contracts.
FnTradeRows ==
    { NewTrade(StartTime - QuarterHour, "PREVIOUS", -2, side, -1, side,
               STAKE_USD, price, FixedStakeContracts(price), "") :
          price \in FnPrices, side \in Sides }
    \cup { NewTrade(StartTime - QuarterHour, "CONSENSUS", NoTicker, "PREV=MOM", -1,
                    side, 12 * 40 * CENT, 40 * CENT, 12 * ONE_CONTRACT, "") :
               side \in Sides }
CallSettleTrade ==
    /\ pc = "fn"
    /\ \E row \in FnTradeRows, res \in Sides :
          call' = [ fn |-> "settle_trade", before |-> row, result |-> res,
                    after |-> SettleTrade(variant, config, row, res) ]
    /\ UNCHANGED trades
    /\ FnUnchanged

NextFn ==
    \/ ReadRow
    \/ CallRolling
    \/ CallHedge
    \/ CallRiskCheck
    \/ CallBankroll
    \/ CallSettle
    \/ CallSettleTrade

SpecFn == InitFn /\ [][NextFn]_vars

\* ================================================================ claims
\* Shared vocabulary of the properties below.
ConsensusStrategies == {"CONSENSUS", "CONSENSUS_2"}
PairOf(t) == << t.strategy, t.buy_ticker >>
IsSettled(t) == t.outcome # ""
OutcomeFields(t) ==
    << t.outcome, t.payout_usd, t.profit_usd, t.gross_profit_usd, t.fee_usd >>
\* Rows present after a step that were not there before it.
AppendedRows == {i \in DOMAIN trades' : i > Len(trades)}
ScanStep == pc \in {"scan", "scan_15"}
AfterScan == pc \in {"previous", "decide_15"}

\* C1: the ledger, in memory and on file, never holds two Trades with the
\* same (strategy, buy_ticker) pair, whatever the cycles, the failed
\* external calls and the restarts that led to the state.
C1_OneTradePerPair ==
    /\ \A i, j \in DOMAIN trades :
          i # j => PairOf(trades[i]) # PairOf(trades[j])
    /\ \A i, j \in DOMAIN csv :
          i # j => PairOf(csv[i]) # PairOf(csv[j])

\* C2: every ARBITRAGE_HEDGE Trade of the ledger has an ARBITRAGE Trade on
\* the same market whose side is the opposite one.
C2_HedgeHasFirstLeg ==
    \A ts \in {trades, csv} :
        \A i \in DOMAIN ts :
            ts[i].strategy = "ARBITRAGE_HEDGE" =>
                \E j \in DOMAIN ts :
                    /\ ts[j].strategy = "ARBITRAGE"
                    /\ ts[j].buy_ticker = ts[i].buy_ticker
                    /\ ts[j].buy_side \in Sides
                    /\ ts[i].buy_side = Opposite(ts[j].buy_side)

\* A hedge has been written to the ledger file.
C2_Witness ==
    \E i \in DOMAIN csv : csv[i].strategy = "ARBITRAGE_HEDGE"

\* C3: once a row has an outcome, no step changes its outcome, payout or
\* profit fields: never on file, and in memory as long as the process runs;
\* and the settlement scan looks up only rows that have no outcome.
C3_OutcomeWriteOnce ==
    [][ /\ \A i \in DOMAIN csv :
              IsSettled(csv[i]) =>
                  /\ i \in DOMAIN csv'
                  /\ OutcomeFields(csv'[i]) = OutcomeFields(csv[i])
        /\ ~Restart =>
              \A i \in DOMAIN trades :
                  IsSettled(trades[i]) =>
                      /\ i \in DOMAIN trades'
                      /\ OutcomeFields(trades'[i]) = OutcomeFields(trades[i])
        /\ ScanStep =>
              \A i \in scanned'.queried : ~IsSettled(trades[i]) ]_vars

\* A scan has just looked up pending rows while an older row of the ledger
\* was already settled, in memory and on file.
C3_Witness ==
    /\ AfterScan
    /\ scanned.queried # {}
    /\ \E i \in DOMAIN trades :
          /\ i \notin scanned.queried
          /\ IsSettled(trades[i])
          /\ i \in DOMAIN csv /\ IsSettled(csv[i])

\* C4: in every row, in memory and on file, the outcome is empty, WIN or
\* LOSS, and payout_usd and profit_usd have a value exactly when the outcome
\* is not empty.
C4_OutcomeShape ==
    \A ts \in {trades, csv} :
        \A i \in DOMAIN ts :
            /\ ts[i].outcome \in {"", "WIN", "LOSS"}
            /\ (ts[i].payout_usd # NoValue) <=> (ts[i].outcome # "")
            /\ (ts[i].profit_usd # NoValue) <=> (ts[i].outcome # "")

\* The ledger holds a settled row next to a pending one.
C4_Witness ==
    /\ \E i \in DOMAIN csv : csv[i].outcome = "WIN"
    /\ \E i \in DOMAIN csv : csv[i].outcome = "LOSS"
    /\ \E i \in DOMAIN csv : csv[i].outcome = ""

\* C5: a row that receives its outcome gets WIN exactly when the settled
\* side is its buy_side, payout = contracts on WIN and 0 on LOSS, gross =
\* payout - stake, fee = stake x fee fraction for CONSENSUS and CONSENSUS_2
\* and 0 otherwise, and net profit = gross - fee.
C5_SettlementValues ==
    [][ \A i \in DOMAIN trades :
          (~IsSettled(trades[i]) /\ i \in DOMAIN trades' /\ IsSettled(trades'[i])) =>
            LET t == trades[i]
                u == trades'[i]
                settled == result[t.buy_ticker]
                win == (settled = t.buy_side)
                stake == t.stake_usd[1]
                payout == IF win THEN t.contracts[1] ELSE 0
                fee == IF t.strategy \in ConsensusStrategies
                       THEN (stake * config.CONSENSUS_FEE_PCT) \div 100 ELSE 0
            IN  /\ settled \in Sides
                /\ u.outcome = (IF win THEN "WIN" ELSE "LOSS")
                /\ u.payout_usd = << payout >>
                /\ u.profit_usd = << (payout - stake) - fee >>
                /\ variant = "bot" =>
                      /\ u.gross_profit_usd = << payout - stake >>
                      /\ u.fee_usd = << fee >> ]_vars

\* A CONSENSUS row has been settled as a WIN with a fee charged, next to a
\* settled row of another strategy that carries no fee.
C5_Witness ==
    /\ \E i \in DOMAIN trades :
          /\ trades[i].strategy \in ConsensusStrategies
          /\ trades[i].outcome = "WIN"
          /\ trades[i].fee_usd # << 0 >>
    /\ \E i \in DOMAIN trades :
          /\ trades[i].strategy \notin ConsensusStrategies
          /\ trades[i].outcome = "LOSS"
          /\ trades[i].fee_usd = << 0 >>

\* C6: the settlement scan runs in every cycle, also in a cycle in which no
\* open market is listed, so that a pending row whose market the exchange
\* has settled is looked up in the cycle that follows.
C6_ScanEveryCycle ==
    [][ ( /\ cycles' = cycles + 1
          /\ \E i \in DOMAIN trades :
                ~IsSettled(trades[i]) /\ result[trades[i].buy_ticker] \in Sides )
        => pc' \in {"scan", "scan_15"} ]_vars

\* C7: within one scan every pending row is looked up; a row whose lookup
\* fails is left as it was, and every other pending row whose market has a
\* settled side receives its outcome in that same scan.
C7_LookupFailureIsolated ==
    [][ ScanStep =>
          \A i \in DOMAIN trades :
              (~IsSettled(trades[i]) /\ trades[i].buy_ticker # NoTicker) =>
                  /\ i \in scanned'.queried
                  /\ i \in scanned'.failed => trades'[i] = trades[i]
                  /\ ( /\ i \notin scanned'.failed
                       /\ result[trades[i].buy_ticker] \in Sides )
                     => IsSettled(trades'[i]) ]_vars

\* A scan in which the lookup of one row failed has resolved a later row.
C7_Witness ==
    /\ AfterScan
    /\ \E i \in scanned.failed :
          /\ ~IsSettled(trades[i])
          /\ result[trades[i].buy_ticker] \in Sides
          /\ \E j \in scanned.queried : j > i /\ IsSettled(trades[j])

\* C8: no step appends a Trade for a pair that is already in the decision
\* index: a (strategy, ticker) pair of traded_keys in bot.py, a ticker of
\* traded_tickers in momentum_15.py.  A further cycle on the same market
\* therefore adds no Trade for a pair decided in an earlier one.
C8_NoTradeForDecidedPair ==
    [][ \A i \in AppendedRows :
          /\ variant = "bot" => PairOf(trades'[i]) \notin traded_keys
          /\ variant = "momentum_15" =>
                trades'[i].buy_ticker \notin traded_tickers ]_vars

\* A later cycle on the same market has run to its end, and a pair traded in
\* an earlier cycle still has its single Trade.
C8_Witness ==
    /\ pc = "clear"
    /\ \E i \in DOMAIN trades :
          /\ trades[i].buy_ticker = market.ticker
          /\ trades[i].time < now
          /\ PairOf(trades[i]) \in traded_keys
          /\ \A j \in DOMAIN trades :
                j # i => PairOf(trades[j]) # PairOf(trades[i])

\* Sum of the net profit of the rows with index in S.
RECURSIVE NetProfit(_, _)
NetProfit(ts, S) ==
    IF S = {} THEN 0
    ELSE LET i == CHOOSE k \in S : TRUE
         IN  ts[i].profit_usd[1] + NetProfit(ts, S \ {i})

SettledConsensusRows(ts) ==
    {i \in DOMAIN ts : ts[i].strategy \in ConsensusStrategies /\ IsSettled(ts[i])}
\* Bankroll, in 1e-4 USD.
BankrollOf(ts) == INITIAL_BANKROLL_USD + NetProfit(ts, SettledConsensusRows(ts))
\* One R (1% of the bankroll, at least 0.01 USD), in 1e-6 USD.
OneR(ts) ==
    IF BankrollOf(ts) * CONSENSUS_RISK_PCT > CENT * 100
    THEN BankrollOf(ts) * CONSENSUS_RISK_PCT ELSE CENT * 100
\* Realized P&L of the calendar day and of the ISO week of time, in 1e-6 USD.
DayPnl(ts, time) ==
    100 * NetProfit(ts, {i \in SettledConsensusRows(ts) :
                            ts[i].time \div SECONDS_PER_DAY = time \div SECONDS_PER_DAY})
WeekPnl(ts, time) ==
    100 * NetProfit(ts, {i \in SettledConsensusRows(ts) :
                            IsoWeekOf(ts[i].time) = IsoWeekOf(time)})
DailyCapHit == DayPnl(trades, now) <= -(config.CONSENSUS_DAILY_LOSS_CAP_R * OneR(trades))
WeeklyCapHit == WeekPnl(trades, now) <= -(config.CONSENSUS_WEEKLY_LOSS_CAP_R * OneR(trades))

\* C9: no CONSENSUS or CONSENSUS_2 Trade is appended in a cycle in which the
\* realized daily P&L is <= -(daily cap x R) or the realized weekly P&L is
\* <= -(weekly cap x R), R being max(bankroll x 1%, 0.01 USD); the bound is
\* inclusive (a bankroll of 500 USD and a cap of 3R reject a P&L of exactly
\* -15 USD), and a cycle is rejected for a loss cap only when that cap is
\* hit, for the weekly one only when the daily one is not.
C9_NoConsensusTradeAtLossCap ==
    [][ /\ \A i \in AppendedRows :
              trades'[i].strategy \in ConsensusStrategies =>
                  ~DailyCapHit /\ ~WeeklyCapHit
        /\ (pc \in {"consensus", "consensus_2"} /\ skip_log' # NoLog) =>
              /\ skip_log'[2] = "daily loss cap" => DailyCapHit
              /\ skip_log'[2] = "weekly loss cap" =>
                    WeeklyCapHit /\ ~DailyCapHit ]_vars

\* A cycle ended on the daily loss cap with the P&L exactly at the cap
\* (-15 USD for a bankroll of 500 USD and a cap of 3R), both signals in
\* agreement and no CONSENSUS Trade for the market.
C9_Witness ==
    /\ pc = "top"
    /\ skip_log = << "CONSENSUS", "daily loss cap" >>
    /\ BankrollOf(trades) = 500 * 10000
    /\ config.CONSENSUS_DAILY_LOSS_CAP_R = 3
    /\ DayPnl(trades, now) = -(15 * 1000000)
    /\ Agree(signals[current_ticker])
    /\ \A i \in DOMAIN trades :
          PairOf(trades[i]) # << "CONSENSUS", current_ticker >>

Reversed(ts) == [i \in DOMAIN ts |-> ts[Len(ts) + 1 - i]]

\* C10: the bankroll the risk checks use is the initial bankroll plus the sum
\* of the net profit of the settled CONSENSUS and CONSENSUS_2 rows, whatever
\* their order; pending rows and rows of other strategies add nothing.
C10_BankrollIsInitialPlusNet ==
    /\ consensus_bankroll(trades) = BankrollOf(trades)
    /\ consensus_bankroll(Reversed(trades)) = consensus_bankroll(trades)

\* The ledger holds a settled consensus row with a non-zero net profit, a
\* settled row of another strategy with a non-zero net profit, and a pending
\* consensus row.
C10_Witness ==
    /\ \E i \in SettledConsensusRows(trades) : trades[i].profit_usd # << 0 >>
    /\ \E i \in DOMAIN trades :
          /\ trades[i].strategy \notin ConsensusStrategies
          /\ IsSettled(trades[i]) /\ trades[i].profit_usd # << 0 >>
    /\ \E i \in DOMAIN trades :
          trades[i].strategy \in ConsensusStrategies /\ ~IsSettled(trades[i])

\* ---- C11
\* The rows of the rolling window: the last CONSENSUS_ROLLING_WINDOW settled
\* risk-managed rows of the list.
WindowRows(cfg, ts) ==
    {i \in SettledConsensusRows(ts) :
        Cardinality({j \in SettledConsensusRows(ts) : j > i}) < cfg.CONSENSUS_ROLLING_WINDOW}
WindowWins(cfg, ts) == {i \in WindowRows(cfg, ts) : ts[i].profit_usd[1] > 0}
WindowLosses(cfg, ts) == {i \in WindowRows(cfg, ts) : ts[i].profit_usd[1] <= 0}
\* mean(|losses|) / (mean(wins) + mean(|losses|)) as a fraction, both means
\* brought to the denominator |wins| * |losses|
MeanRatio(cfg, ts) ==
    LET nw == Cardinality(WindowWins(cfg, ts))
        nl == Cardinality(WindowLosses(cfg, ts))
        sumWins == NetProfit(ts, WindowWins(cfg, ts))
        sumLosses == -NetProfit(ts, WindowLosses(cfg, ts))
    IN  Frac(sumLosses * nw, sumWins * nl + sumLosses * nw)
RECURSIVE Gcd(_, _)
Gcd(a, b) == IF b = 0 THEN a ELSE Gcd(b, a % b)
\* a fraction with a non-negative numerator in lowest terms
Lowest(f) == Frac(f.num \div Gcd(f.num, f.den), f.den \div Gcd(f.num, f.den))
SameFrac(a, b) == Lowest(a) = Lowest(b)
ProfitsOf(ts) == [i \in DOMAIN ts |-> ts[i].profit_usd]
RollingCalled == call.fn = "rolling_consensus_metrics"

\* C11: the break-even win rate rolling_consensus_metrics returns is
\* mean(|losses|) / (mean(wins) + mean(|losses|)) over the last N settled
\* risk-managed rows when the window holds both a win (profit > 0) and a loss
\* (profit <= 0), 0 when it holds only wins, and 1 when it holds only losses
\* or nothing.
C11_BreakEvenWinRate ==
    RollingCalled =>
        LET be == call.value.break_even_win_rate
            wins == WindowWins(config, trades)
            losses == WindowLosses(config, trades)
        IN  /\ be.den > 0
            /\ (wins # {} /\ losses # {}) => SameFrac(be, MeanRatio(config, trades))
            /\ (wins # {} /\ losses = {}) => SameFrac(be, Frac(0, 1))
            /\ wins = {} => SameFrac(be, Frac(1, 1))
\* wins of 10 and 10 and a loss of 5 give 5/15
C11_Witness ==
    /\ RollingCalled
    /\ config = DefaultConfig
    /\ ProfitsOf(trades) = << Val(10 * 100 * CENT), Val(10 * 100 * CENT), Val(-5 * 100 * CENT) >>
    /\ \A i \in DOMAIN trades : trades[i].strategy = "CONSENSUS"
    /\ SameFrac(call.value.break_even_win_rate, Frac(5, 15))
\* a profit of exactly 0 is a loss: a win of 10, a row of 0 and a loss of 5
\* give a mean loss of 2.5 and 2.5/12.5
C11_ZeroIsLoss ==
    /\ RollingCalled
    /\ config = DefaultConfig
    /\ ProfitsOf(trades) = << Val(10 * 100 * CENT), Val(0), Val(-5 * 100 * CENT) >>
    /\ call.value.win_rate = Frac(1, 3)
    /\ SameFrac(call.value.break_even_win_rate, Frac(1, 5))

\* ---- C12
\* floor(x / price) for x >= 0 in 1e-6 USD and a price in 1e-4 USD
FloorOver(x, price) == CHOOSE k \in 0..(x \div 100) : k * price * 100 <= x /\ (k + 1) * price * 100 > x
\* s = min(max(bankroll x riskFraction, 0.01), bankroll x maxRiskFraction,
\* bankroll), in 1e-6 USD
RiskStake(ts) ==
    LET b == BankrollOf(ts)
        target == IF b * CONSENSUS_RISK_PCT > CENT * 100 THEN b * CONSENSUS_RISK_PCT ELSE CENT * 100
        lower == IF target < b * CONSENSUS_MAX_RISK_PCT THEN target ELSE b * CONSENSUS_MAX_RISK_PCT
    IN  IF lower < b * 100 THEN lower ELSE b * 100
IsWhole(contracts) == contracts % ONE_CONTRACT = 0
ConsensusRowAppended ==
    \E i \in AppendedRows : trades'[i].strategy \in ConsensusStrategies

C13_PriceWithinMaxPrice ==
    [][ \A i \in AppendedRows :
            trades'[i].strategy \in ConsensusStrategies =>
                /\ trades'[i].price_usd[1] > 0
                /\ trades'[i].price_usd[1] <= config.CONSENSUS_MAX_PRICE ]_vars
\* What the two blocks do bound: CONSENSUS by CONSENSUS_MAX_PRICE, CONSENSUS_2
\* by DEAL_MAX_PRICE alone.
C13_PriceWithinBlockBound ==
    [][ \A i \in AppendedRows :
            /\ trades'[i].strategy = "CONSENSUS" =>
                  /\ trades'[i].price_usd[1] > 0
                  /\ trades'[i].price_usd[1] <= config.CONSENSUS_MAX_PRICE
            /\ trades'[i].strategy = "CONSENSUS_2" =>
                  /\ trades'[i].price_usd[1] > 0
                  /\ trades'[i].price_usd[1] <= DEAL_MAX_PRICE ]_vars
\* A CONSENSUS_2 Trade at 0.40 under CONSENSUS_MAX_PRICE=0.30.
C13_AboveMaxPrice ==
    \E i \in DOMAIN trades :
        /\ trades[i].strategy = "CONSENSUS_2"
        /\ trades[i].price_usd[1] > config.CONSENSUS_MAX_PRICE

\* ---- C14
MomentumStrategies == {"MOMENTUM", "MOMENTUM_15"}
WindowOf(strategy) ==
    IF strategy = "MOMENTUM" THEN MOMENTUM_WINDOW_SECONDS ELSE MOMENTUM_15_WINDOW_SECONDS
\* The current price of a decision is the newest sample taken up to then
\* (the one of the cycle unless its feed poll failed); its reference price
\* is the newest sample at least one window older than the decision.
PriceAt(prices, time) ==
    LET upTo == {k \in DOMAIN prices : prices[k][1] <= time}
    IN  prices[CHOOSE k \in upTo : \A j \in upTo : j <= k][2]
HasReference(prices, time, window) ==
    \E k \in DOMAIN prices : prices[k][1] <= time - window
ReferencePrice(prices, time, window) ==
    LET older == {k \in DOMAIN prices : prices[k][1] <= time - window}
    IN  prices[CHOOSE k \in older : \A j \in older : j <= k][2]

\* C14: a MOMENTUM or MOMENTUM_15 Trade, of either variant, buys "yes" only
\* when the current BTC price is strictly greater than the reference (older)
\* price, and "no" otherwise: when the two are equal the side is "no".
C14_MomentumTieIsNo ==
    [][ \A i \in AppendedRows :
            trades'[i].strategy \in MomentumStrategies =>
                LET window == WindowOf(trades'[i].strategy)
                    current == PriceAt(btc_prices, now)
                    reference == ReferencePrice(btc_prices, now, window)
                IN  /\ HasReference(btc_prices, now, window)
                    /\ current > reference => trades'[i].buy_side = "yes"
                    /\ current < reference => trades'[i].buy_side = "no"
                    /\ current = reference => trades'[i].buy_side = "no" ]_vars
\* A momentum Trade decided on a current price equal to its reference price.
C14_Witness ==
    \E i \in DOMAIN trades :
        /\ trades[i].strategy \in MomentumStrategies
        /\ trades[i].buy_side = "no"
        /\ \E k \in DOMAIN btc_prices :
              btc_prices[k][1] = trades[i].time - WindowOf(trades[i].strategy)
        /\ \E k \in DOMAIN btc_prices : btc_prices[k][1] = trades[i].time
        /\ HasReference(btc_prices, trades[i].time, WindowOf(trades[i].strategy))
        /\ PriceAt(btc_prices, trades[i].time)
              = ReferencePrice(btc_prices, trades[i].time, WindowOf(trades[i].strategy))

\* ---- C15
\* C15: every ARBITRAGE_HEDGE Trade has a whole contract count that is >= 1,
\* <= the contracts of the first leg and <= floor((maxHedgeBudget - 0.0001) /
\* opposite ask), so that its stake is < maxHedgeBudget; it is appended only
\* in a cycle in which first-leg price + current opposite ask < 1.
C15_HedgeSizedAndLocked ==
    [][ \A i \in AppendedRows :
            trades'[i].strategy = "ARBITRAGE_HEDGE" =>
                LET h == trades'[i]
                    n == h.contracts[1] \div ONE_CONTRACT
                    ask == AskOf(market, h.buy_side)
                IN  /\ IsWhole(h.contracts[1])
                    /\ n >= 1
                    /\ ask > 0
                    /\ h.price_usd[1] = ask
                    /\ n * ask <= ARBITRAGE_MAX_BET_USD - ARBITRAGE_BET_EPSILON
                    /\ (n + 1) * ask > ARBITRAGE_MAX_BET_USD - ARBITRAGE_BET_EPSILON
                          \/ \E j \in DOMAIN trades :
                                /\ trades[j].strategy = "ARBITRAGE"
                                /\ trades[j].buy_ticker = h.buy_ticker
                                /\ (n + 1) * ONE_CONTRACT > trades[j].contracts[1]
                    /\ h.stake_usd[1] = n * ask
                    /\ h.stake_usd[1] < ARBITRAGE_MAX_BET_USD
                    /\ \E j \in DOMAIN trades :
                          /\ trades[j].strategy = "ARBITRAGE"
                          /\ trades[j].buy_ticker = h.buy_ticker
                          /\ h.buy_side = Opposite(trades[j].buy_side)
                          /\ h.contracts[1] <= trades[j].contracts[1]
                          /\ trades[j].price_usd[1] + ask < ONE_CONTRACT ]_vars
\* A hedge of 12 contracts at 0.55 against a first leg of 12.5 contracts at
\* 0.40.
C15_Witness ==
    \E i, j \in DOMAIN trades :
        /\ trades[i].strategy = "ARBITRAGE_HEDGE"
        /\ trades[j].strategy = "ARBITRAGE"
        /\ trades[j].buy_ticker = trades[i].buy_ticker
        /\ trades[j].price_usd = Val(40 * CENT)
        /\ trades[j].contracts = Val(125000)
        /\ trades[i].price_usd = Val(55 * CENT)
        /\ trades[i].contracts = Val(12 * ONE_CONTRACT)
\* The sizing on its own: the count is 0 without an edge and otherwise the
\* smaller of floor(first-leg contracts) and floor(9.9999 / opposite ask).
C15_HedgeSizing ==
    call.fn = "hedge" =>
        LET n == call.value
            byFirstLeg == CHOOSE k \in 0..STAKE_USD :
                             /\ k * call.first_price <= STAKE_USD
                             /\ (k + 1) * call.first_price > STAKE_USD
            budget_left == ARBITRAGE_MAX_BET_USD - ARBITRAGE_BET_EPSILON
        IN  IF call.opposite_price > 0 /\ call.first_price + call.opposite_price < ONE_CONTRACT
            THEN /\ n <= byFirstLeg
                 /\ n * call.opposite_price <= budget_left
                 /\ n = byFirstLeg \/ (n + 1) * call.opposite_price > budget_left
            ELSE n = 0
\* A first leg of 16 whole contracts at 0.30 hedged with only 15 at 0.65.
C15_BudgetBinds ==
    /\ call.fn = "hedge"
    /\ call.first_price = 30 * CENT
    /\ call.opposite_price = 65 * CENT
    /\ call.value = 15

\* ---- C16
\* The rolling gate on a ledger: the window holds at least N rows and wins /
\* rows is strictly below the break-even win rate.
BreakEvenOf(cfg, ts) ==
    IF WindowWins(cfg, ts) = {} THEN Frac(1, 1)
    ELSE IF WindowLosses(cfg, ts) = {} THEN Frac(0, 1)
    ELSE Lowest(MeanRatio(cfg, ts))
WindowFull(cfg, ts) ==
    Cardinality(WindowRows(cfg, ts)) >= cfg.CONSENSUS_ROLLING_WINDOW
BelowBreakEven(cfg, ts) ==
    Cardinality(WindowWins(cfg, ts)) * BreakEvenOf(cfg, ts).den
        < BreakEvenOf(cfg, ts).num * Cardinality(WindowRows(cfg, ts))
GateHit == WindowFull(config, trades) /\ BelowBreakEven(config, trades)
\* The candidate of the cycle: both signals are set and agree, and the
\* strategy has not decided the market yet.
Candidate(strategy) ==
    /\ market.ticker \in DOMAIN signals
    /\ signals[market.ticker].PREVIOUS \in Sides
    /\ signals[market.ticker].MOMENTUM = signals[market.ticker].PREVIOUS
    /\ << strategy, market.ticker >> \notin traded_keys
CandidatePrice == AskOf(market, signals[market.ticker].PREVIOUS)
RiskRejections ==
    {"invalid price", "max price", "bankroll depleted", "daily loss cap",
     "weekly loss cap", "rolling win rate", "stake too small", "max risk"}

C16_Reevaluated ==
    \E i, j \in DOMAIN trades :
        /\ trades[i].strategy = "CONSENSUS"
        /\ trades[j].strategy = "CONSENSUS_2"
        /\ trades[j].buy_ticker = trades[i].buy_ticker
        /\ trades[i].price_usd[1] > DEAL_MAX_PRICE
        /\ trades[j].time > trades[i].time

\* ---- C17
Authenticated == variant = "momentum_15"
\* The place_order call made by the step, if it made one.
CallMade == Len(orders') = Len(orders) + 1
NewCall == orders'[Len(orders')]

\* C17: in the authenticated variant a failed order placement appends no
\* Trade and marks the market decided, no second place_order call is made
\* for that market for the rest of the process lifetime, and a Trade is
\* appended only by a step whose place_order call returned successfully.
C17_FailedOrderIsFinal ==
    [][ Authenticated =>
          /\ (CallMade /\ ~NewCall.ok) =>
                /\ trades' = trades
                /\ NewCall.ticker \in traded_tickers'
          /\ CallMade =>
                \A k \in DOMAIN orders :
                    ~(~orders[k].ok /\ orders[k].ticker = NewCall.ticker
                                   /\ orders[k].pid = NewCall.pid)
          /\ \A i \in AppendedRows :
                /\ CallMade
                /\ NewCall.ok
                /\ NewCall.ticker = trades'[i].buy_ticker
                /\ NewCall.side = trades'[i].buy_side
                /\ NewCall.count * ONE_CONTRACT = trades'[i].contracts[1] ]_vars
\* A later cycle of the same process is at its decision point on a market
\* whose order failed: the market is decided and has no Trade.
C17_Witness ==
    /\ Authenticated
    /\ pc = "decide_15"
    /\ pending_previous # NoTicker
    /\ market.ticker \in traded_tickers
    /\ \E k \in DOMAIN orders :
          /\ ~orders[k].ok
          /\ orders[k].ticker = market.ticker
          /\ orders[k].pid = pid
    /\ \A i \in DOMAIN trades : trades[i].buy_ticker # market.ticker

\* ---- C18
\* C18: in the authenticated variant with DRY_RUN true no order request is
\* ever sent: every place_order call returns a simulated order without a
\* request, and the step that made it appends the Trade of the decision
\* and marks the market decided.
C18_DryRunSendsNothing ==
    [][ (Authenticated /\ config.DRY_RUN) =>
          /\ \A k \in DOMAIN orders' : ~orders'[k].sent
          /\ CallMade =>
                /\ NewCall.ok
                /\ NewCall.ticker \in traded_tickers'
                /\ \E i \in AppendedRows :
                      /\ trades'[i].strategy = "MOMENTUM_15"
                      /\ trades'[i].buy_ticker = NewCall.ticker
                      /\ trades'[i].buy_side = NewCall.side
                      /\ trades'[i].order_id = "DRY-RUN" ]_vars
\* A dry run has recorded a simulated order as a Trade and decided the
\* market, with no request sent.
C18_Witness ==
    /\ Authenticated
    /\ config.DRY_RUN
    /\ \E k \in DOMAIN orders, i \in DOMAIN trades :
          /\ ~orders[k].sent
          /\ trades[i].buy_ticker = orders[k].ticker
          /\ trades[i].order_id = "DRY-RUN"
          /\ orders[k].ticker \in traded_tickers

\* ---- C19
CheckNames ==
    << "invalid price", "max price", "bankroll depleted", "daily loss cap",
       "weekly loss cap", "rolling win rate", "stake too small" >>
\* The seven checks of the Risk Manager on the ledger of the state, for a
\* candidate at `price` and a maximum acceptable price `maxPrice`.
Fails(k, price, maxPrice) ==
    CASE k = 1 -> price <= 0
      [] k = 2 -> price > maxPrice
      [] k = 3 -> BankrollOf(trades) <= 0
      [] k = 4 -> DailyCapHit
      [] k = 5 -> WeeklyCapHit
      [] k = 6 -> GateHit
      [] k = 7 -> /\ price > 0
                  /\ BankrollOf(trades) > 0
                  /\ FloorOver(RiskStake(trades), price) < 1
\* The first check that fails, 0 when none does.
FirstFailing(price, maxPrice) ==
    IF \E k \in 1..7 : Fails(k, price, maxPrice)
    THEN CHOOSE k \in 1..7 :
            /\ Fails(k, price, maxPrice)
            /\ \A j \in 1..(k - 1) : ~Fails(j, price, maxPrice)
    ELSE 0

\* C19: the Risk Manager evaluates (1) price <= 0, (2) price > maximum
\* acceptable price, (3) bankroll <= 0, (4) daily loss cap, (5) weekly loss
\* cap, (6) rolling break-even gate, (7) sizing below one contract, in this
\* order; the first check that fails determines the decision and the Trade
\* is appended only when none fails. CONSENSUS_2 calls on it for a candidate
\* at or below the deal threshold.
C19_FirstFailingCheckDecides ==
    [][ /\ (pc = "consensus" /\ Candidate("CONSENSUS")) =>
              LET f == FirstFailing(CandidatePrice, config.CONSENSUS_MAX_PRICE)
              IN  IF f = 0
                  THEN \E i \in AppendedRows :
                          /\ trades'[i].strategy = "CONSENSUS"
                          /\ trades'[i].buy_ticker = market.ticker
                  ELSE /\ trades' = trades
                       /\ skip_log' = << "CONSENSUS", CheckNames[f] >>
        /\ ( /\ pc = "consensus_2"
             /\ Candidate("CONSENSUS_2")
             /\ CandidatePrice <= DEAL_MAX_PRICE ) =>
              LET f == FirstFailing(CandidatePrice, config.CONSENSUS_MAX_PRICE)
              IN  IF f = 0
                  THEN \E i \in AppendedRows :
                          /\ trades'[i].strategy = "CONSENSUS_2"
                          /\ trades'[i].buy_ticker = market.ticker
                  ELSE /\ trades' = trades
                       /\ skip_log' = IF f \in {4, 5, 6}
                                      THEN << "CONSENSUS_2", CheckNames[f] >>
                                      ELSE NoLog ]_vars
\* The order as the two blocks implement it: CONSENSUS_2 tests the price
\* against the deal threshold in place of the maximum acceptable price.
C19_OrderAsCoded ==
    [][ /\ (pc = "consensus" /\ Candidate("CONSENSUS")) =>
              LET f == FirstFailing(CandidatePrice, config.CONSENSUS_MAX_PRICE)
              IN  IF f = 0
                  THEN \E i \in AppendedRows :
                          /\ trades'[i].strategy = "CONSENSUS"
                          /\ trades'[i].buy_ticker = market.ticker
                  ELSE /\ trades' = trades
                       /\ skip_log' = << "CONSENSUS", CheckNames[f] >>
        /\ (pc = "consensus_2" /\ Candidate("CONSENSUS_2")) =>
              LET f == FirstFailing(CandidatePrice, DEAL_MAX_PRICE)
              IN  IF f = 0
                  THEN \E i \in AppendedRows :
                          /\ trades'[i].strategy = "CONSENSUS_2"
                          /\ trades'[i].buy_ticker = market.ticker
                  ELSE /\ trades' = trades
                       /\ skip_log' = IF f \in {4, 5, 6}
                                      THEN << "CONSENSUS_2", CheckNames[f] >>
                                      ELSE NoLog ]_vars
\* A candidate above the maximum price on a ledger at its daily loss cap is
\* rejected for its price.
C19_PriceBeforeCaps ==
    /\ skip_log = << "CONSENSUS", "max price" >>
    /\ DailyCapHit
\* The two check lists on their own, on every ledger of at most MaxRows rows.
C19_CheckOrder ==
    call.fn = "risk_check" =>
        LET f == FirstFailing(call.price, config.CONSENSUS_MAX_PRICE)
            f2 == FirstFailing(call.price, DEAL_MAX_PRICE)
        IN  /\ call.consensus = (IF f = 0 THEN "ok" ELSE CheckNames[f])
            /\ f2 \in {1, 2} <=> call.consensus_2 = "no deal"
            /\ f2 \in 3..6 <=> call.consensus_2 = CheckNames[IF f2 \in 3..6 THEN f2 ELSE 3]
            /\ f2 = 7 <=> (call.consensus_2 = "ok" /\ call.contracts_2 < 1)
            /\ f2 = 0 <=> (call.consensus_2 = "ok" /\ call.contracts_2 >= 1)
\* A bankroll of 10 USD sizes a stake of 0.10 USD, below one contract at 0.40.
C19_StakeTooSmall ==
    /\ call.fn = "risk_check"
    /\ call.consensus = "stake too small"
    /\ BankrollOf(trades) = 10 * 100 * CENT
\* A depleted bankroll that is also at its daily loss cap is rejected for the
\* bankroll.
C19_BankrollBeforeCaps ==
    /\ call.fn = "risk_check"
    /\ call.consensus = "bankroll depleted"
    /\ DailyCapHit

\* ---- C20
RiskChecked == call.fn = "risk_check"
RollingRejected ==
    call.consensus = "rolling win rate" \/ call.consensus_2 = "rolling win rate"
C20_Rejected ==
    /\ RiskChecked
    /\ WindowFull(config, trades)
    /\ call.consensus = "rolling win rate"
    /\ call.consensus_2 = "rolling win rate"
C20_ShortWindowPasses ==
    /\ RiskChecked
    /\ ~WindowFull(config, trades)
    /\ WindowWins(config, trades) = {}
    /\ WindowLosses(config, trades) # {}
    /\ call.consensus = "ok"

\* ---- C21
\* The price of the oldest sample of the buffer at least one window older
\* than `time`.
OldestPrice(prices, time, window) ==
    LET older == {k \in DOMAIN prices : prices[k][1] <= time - window}
    IN  prices[CHOOSE k \in older : \A j \in older : k <= j][2]
SideAgainst(current, reference) == IF current > reference THEN "yes" ELSE "no"

\* C21 (as stated): the reference price of a momentum side for window W is
\* that of the oldest sample of the buffer with a timestamp <= now - W.
C21_ReferenceIsOldest ==
    [][ \A i \in AppendedRows :
            trades'[i].strategy \in MomentumStrategies =>
                trades'[i].buy_side =
                    SideAgainst(PriceAt(btc_prices, now),
                                OldestPrice(btc_prices, now,
                                            WindowOf(trades'[i].strategy))) ]_vars
\* C21 (amended): the reference price of a momentum side for window W is
\* that of the newest sample of the buffer with a timestamp <= now - W, the
\* one closest to W seconds ago.
C21_ReferenceIsNewestOld ==
    [][ \A i \in AppendedRows :
            trades'[i].strategy \in MomentumStrategies =>
                trades'[i].buy_side =
                    SideAgainst(PriceAt(btc_prices, now),
                                ReferencePrice(btc_prices, now,
                                               WindowOf(trades'[i].strategy))) ]_vars
\* A momentum Trade whose side follows the newest sample at least one window
\* old and contradicts the oldest one.
C21_Witness ==
    \E i \in DOMAIN trades :
        LET window == WindowOf(trades[i].strategy)
        IN  /\ trades[i].strategy \in MomentumStrategies
            /\ \E k \in DOMAIN btc_prices : btc_prices[k][1] = trades[i].time
            /\ HasReference(btc_prices, trades[i].time, window)
            /\ trades[i].buy_side =
                  SideAgainst(PriceAt(btc_prices, trades[i].time),
                              ReferencePrice(btc_prices, trades[i].time, window))
            /\ trades[i].buy_side #
                  SideAgainst(PriceAt(btc_prices, trades[i].time),
                              OldestPrice(btc_prices, trades[i].time, window))

\* ---- C22
SignalStrategies == {"PREVIOUS", "MOMENTUM", "MOMENTUM_15"}
Resolved(t, strategy) ==
    t \in DOMAIN signals /\ signals[t][strategy] \in Sides
\* The derivation of (strategy, t) runs in the step: it assigns the entry
\* and appends the Trade of the pair.
Derived(t, strategy) ==
    \E i \in AppendedRows :
        trades'[i].strategy = strategy /\ trades'[i].buy_ticker = t
SameProcess == pid' = pid

\* C22: once the signal entry of (market, strategy) has resolved to a side,
\* it never changes in a later cycle of the process and the derivation of
\* the pair is never executed again.
C22_SignalsMemoized ==
    [][ SameProcess =>
          \A t \in DOMAIN signals : \A strategy \in SignalStrategies :
              Resolved(t, strategy) =>
                  /\ t \in DOMAIN signals'
                  /\ signals'[t][strategy] = signals[t][strategy]
                  /\ ~Derived(t, strategy) ]_vars
\* The same for the entries whose pair is in the decision index, that is
\* whose Trade was saved.
C22_MemoizedOnceDecided ==
    [][ SameProcess =>
          \A t \in DOMAIN signals : \A strategy \in SignalStrategies :
              (Resolved(t, strategy) /\ << strategy, t >> \in traded_keys) =>
                  /\ t \in DOMAIN signals'
                  /\ signals'[t][strategy] = signals[t][strategy]
                  /\ ~Derived(t, strategy) ]_vars
\* Two MOMENTUM Trades of one market on opposite sides: the entry was
\* derived twice and changed.
C22_SignalChanged ==
    \E i, j \in DOMAIN trades :
        /\ i < j
        /\ trades[i].strategy = "MOMENTUM"
        /\ trades[j].strategy = "MOMENTUM"
        /\ trades[i].buy_ticker = trades[j].buy_ticker
        /\ trades[i].buy_side # trades[j].buy_side
        /\ trades[j].buy_ticker \in DOMAIN signals
        /\ signals[trades[j].buy_ticker].MOMENTUM = trades[j].buy_side

\* ---- C23
\* The cycle has observed an open market: the poll leaves the top of the loop.
Observed == pc = "top" /\ pc' \in {"scan", "scan_15"}
\* C23: the first observed identifier becomes current with no previous; a
\* later cycle that observes an identifier different from current makes the
\* prior current the previous one and the new identifier current; observing
\* the same identifier changes neither; a held previous identifier is never
\* equal to the current one.
C23_MarketTracker ==
    [][ /\ Observed =>
              /\ current_ticker' = market'.ticker
              /\ current_ticker = NoTicker =>
                    pending_previous' = NoTicker
              /\ (current_ticker # NoTicker /\ market'.ticker # current_ticker) =>
                    pending_previous' = current_ticker
              /\ market'.ticker = current_ticker =>
                    pending_previous' = pending_previous
        /\ pending_previous' # NoTicker => pending_previous' # current_ticker' ]_vars
\* The last cycle has observed an identifier that differs from the one of
\* the cycle before, which is now the previous one.
C23_Witness ==
    /\ pc \in {"scan", "scan_15"}
    /\ pending_previous # NoTicker
    /\ current_ticker = market.ticker
    /\ pending_previous = current_ticker - 1
    /\ cycles = MaxCycles

\* ---- C24
RolloverStrategies == {"PREVIOUS", "MOMENTUM", "MOMENTUM_15"}
\* C24: no PREVIOUS, MOMENTUM or MOMENTUM_15 Trade is appended in a cycle in
\* which no previous identifier is held (so none between the start of the
\* process and the first change of identifier); the Trade names the held
\* identifier where it records one.
C24_NoRolloverTradeWithoutPrevious ==
    [][ \A i \in AppendedRows :
            trades'[i].strategy \in RolloverStrategies =>
                /\ pending_previous # NoTicker
                /\ pending_previous # trades'[i].buy_ticker
                /\ trades'[i].previous_ticker = pending_previous ]_vars
\* A later cycle on the first market of the process, with a sample one
\* window old in the buffer, has passed the MOMENTUM block without a Trade.
C24_Witness ==
    /\ pc = "momentum_15"
    /\ pid = 1
    /\ pending_previous = NoTicker
    /\ current_ticker = 1
    /\ Len(btc_prices) >= 2
    /\ HasReference(btc_prices, now, MOMENTUM_WINDOW_SECONDS)
    /\ \A i \in DOMAIN trades : trades[i].strategy \notin RolloverStrategies

\* ---- C25
\* C25: a PREVIOUS Trade for market m is appended only in a cycle in which
\* the identifier that was current immediately before m is reported settled,
\* and it buys that settlement side; while that identifier is not settled no
\* PREVIOUS Trade is appended and the pair stays undecided.
C25_PreviousFollowsSettlement ==
    [][ /\ \A i \in AppendedRows :
              trades'[i].strategy = "PREVIOUS" =>
                  /\ trades'[i].buy_ticker = current_ticker
                  /\ trades'[i].previous_ticker = pending_previous
                  /\ result[pending_previous] \in Sides
                  /\ trades'[i].buy_side = result[pending_previous]
        /\ ( /\ pc = "previous"
             /\ pending_previous # NoTicker
             /\ result[pending_previous] \notin Sides ) =>
              /\ ~\E i \in AppendedRows : trades'[i].strategy = "PREVIOUS"
              /\ << "PREVIOUS", market.ticker >> \in traded_keys'
                    => << "PREVIOUS", market.ticker >> \in traded_keys ]_vars
\* A PREVIOUS Trade on the settlement side of the previous market, bought in
\* a later cycle than the first leg of the same market: the pair waited for
\* the settlement.
C25_Witness ==
    \E i, j \in DOMAIN trades :
        /\ trades[i].strategy = "PREVIOUS"
        /\ trades[i].buy_side = result[trades[i].previous_ticker]
        /\ trades[j].strategy = "ARBITRAGE"
        /\ trades[j].buy_ticker = trades[i].buy_ticker
        /\ trades[j].time < trades[i].time
        /\ \A k \in DOMAIN trades :
              (trades[k].strategy = "PREVIOUS" /\ trades[k].buy_ticker = trades[i].buy_ticker)
                  => k = i

\* ---- C26
\* A cycle of bot.py ends: the loop goes back to its top.
CycleEnds == variant = "bot" /\ pc # "top" /\ pc' = "top" /\ market # NoMarket
\* Both signals of the market of the cycle are resolved when the step is over.
BothResolvedAfter ==
    /\ market.ticker \in DOMAIN signals'
    /\ signals'[market.ticker].PREVIOUS \in Sides
    /\ signals'[market.ticker].MOMENTUM \in Sides
\* C26: a cycle that ends with both the PREVIOUS and the MOMENTUM signal of
\* the current market resolved ends with the (CONSENSUS, market) pair
\* decided (so the first such cycle decides it), and a decided pair is never
\* evaluated again: the CONSENSUS block appends nothing and rejects nothing.
C26_ConsensusTerminal ==
    [][ /\ (CycleEnds /\ BothResolvedAfter) =>
              << "CONSENSUS", market.ticker >> \in traded_keys'
        /\ (pc = "consensus" /\ << "CONSENSUS", market.ticker >> \in traded_keys) =>
              /\ trades' = trades
              /\ skip_log' = skip_log
              /\ traded_keys' = traded_keys ]_vars
\* What the CONSENSUS block does when it is reached with both signals
\* resolved and the pair undecided: it marks the pair on disagreement and on
\* every rejection without a Trade, and appends a Trade otherwise; the pair
\* is decided unless the save of that Trade raised.
C26_TerminalWhenReached ==
    [][ ( /\ pc = "consensus"
          /\ Resolved(market.ticker, "PREVIOUS")
          /\ Resolved(market.ticker, "MOMENTUM")
          /\ << "CONSENSUS", market.ticker >> \notin traded_keys ) =>
            \/ /\ << "CONSENSUS", market.ticker >> \in traded_keys'
               /\ \/ /\ trades' = trades
                     /\ \/ signals[market.ticker].PREVIOUS # signals[market.ticker].MOMENTUM
                        \/ /\ skip_log'[1] = "CONSENSUS"
                           /\ skip_log'[2] \in RiskRejections
                           /\ pc' = "top"
                  \/ /\ Len(trades') = Len(trades) + 1
                     /\ trades'[Len(trades')].strategy = "CONSENSUS"
                     /\ trades'[Len(trades')].buy_side = signals[market.ticker].PREVIOUS
                     /\ signals[market.ticker].PREVIOUS = signals[market.ticker].MOMENTUM
            \/ /\ faults' = faults + 1
               /\ Len(trades') = Len(trades) + 1
               /\ traded_keys' = traded_keys ]_vars
\* The loop is back at its top with both signals of the current market
\* resolved and the CONSENSUS pair still undecided.
C26_ResolvedAndUndecided ==
    /\ variant = "bot" /\ pc = "top"
    /\ Resolved(current_ticker, "PREVIOUS")
    /\ Resolved(current_ticker, "MOMENTUM")
    /\ << "CONSENSUS", current_ticker >> \notin traded_keys

\* ---- C27
\* C27: every PREVIOUS_2 Trade buys the resolved previous-result side of its
\* market at a price p with 0 < p <= deal threshold; a PREVIOUS_2 block
\* reached with that side resolved and the price above the threshold appends
\* no Trade and leaves the pair undecided.
C27_Previous2OnlyDeals ==
    [][ /\ \A i \in AppendedRows :
              trades'[i].strategy = "PREVIOUS_2" =>
                  /\ trades'[i].buy_ticker = market.ticker
                  /\ Resolved(market.ticker, "PREVIOUS")
                  /\ trades'[i].buy_side = signals[market.ticker].PREVIOUS
                  /\ trades'[i].price_usd = Val(AskOf(market, trades'[i].buy_side))
                  /\ 0 < trades'[i].price_usd[1]
                  /\ trades'[i].price_usd[1] <= DEAL_MAX_PRICE
        /\ ( /\ pc = "previous_2"
             /\ Resolved(market.ticker, "PREVIOUS")
             /\ AskOf(market, signals[market.ticker].PREVIOUS) > DEAL_MAX_PRICE ) =>
              /\ trades' = trades
              /\ traded_keys' = traded_keys
              /\ pc' = "consensus_2" ]_vars
\* A PREVIOUS_2 Trade bought in a later cycle than the PREVIOUS Trade of the
\* same market, at a lower price: the pair waited above the threshold and
\* was evaluated again.
C27_Witness ==
    \E i, j \in DOMAIN trades :
        /\ trades[i].strategy = "PREVIOUS"
        /\ trades[j].strategy = "PREVIOUS_2"
        /\ trades[i].buy_ticker = trades[j].buy_ticker
        /\ trades[i].buy_side = trades[j].buy_side
        /\ trades[i].time < trades[j].time
        /\ trades[i].price_usd # NoValue
        /\ trades[j].price_usd # NoValue
        /\ trades[i].price_usd[1] > DEAL_MAX_PRICE
        /\ trades[j].price_usd[1] <= DEAL_MAX_PRICE

\* ---- C28
\* The cycle ends without an exception: by the sleep at the bottom of the
\* loop or by the sleep and continue of a strategy block.
CycleCompletes == CycleEnds /\ faults' = faults
BothAsksPositive == market.yes_ask > 0 /\ market.no_ask > 0
LowerAskSide == IF market.yes_ask <= market.no_ask THEN "yes" ELSE "no"
HasFirstLeg(ts, ticker) ==
    \E i \in DOMAIN ts :
        ts[i].strategy = "ARBITRAGE" /\ ts[i].buy_ticker = ticker
\* C28: every cycle that observes the current market with both asks > 0 and
\* runs to its end without an exception leaves a first-leg Trade of that
\* market in the ledger (so the first such cycle appends it), whatever the
\* other strategies did in the cycle; the Trade is appended on the side with
\* the lower ask.
C28_FirstLegOnFirstOpportunity ==
    [][ /\ (CycleCompletes /\ BothAsksPositive) => HasFirstLeg(trades', market.ticker)
        /\ \A i \in AppendedRows :
              trades'[i].strategy = "ARBITRAGE" =>
                  /\ trades'[i].buy_ticker = market.ticker
                  /\ trades'[i].buy_side = LowerAskSide ]_vars
\* What the ARBITRAGE block does when the cycle reaches it: with the pair
\* undecided and both asks > 0 it appends the first leg on the side with
\* the lower ask (yes on a tie), whatever the signals and the previous
\* identifier are.
C28_FirstLegWhenReached ==
    [][ ( /\ pc = "arbitrage"
          /\ BothAsksPositive
          /\ << "ARBITRAGE", market.ticker >> \notin traded_keys ) =>
            /\ Len(trades') = Len(trades) + 1
            /\ trades'[Len(trades')].strategy = "ARBITRAGE"
            /\ trades'[Len(trades')].buy_ticker = market.ticker
            /\ trades'[Len(trades')].buy_side = LowerAskSide
            /\ trades'[Len(trades')].price_usd =
                   Val(Min(market.yes_ask, market.no_ask)) ]_vars
\* The loop is back at its top after a CONSENSUS rejection, no exception
\* was raised in the run, and the ledger holds no first leg of the current
\* market.
C28_NoFirstLegAfterSkip ==
    /\ variant = "bot" /\ pc = "top" /\ faults = 0
    /\ current_ticker # NoTicker
    /\ skip_log # NoLog
    /\ skip_log[1] = "CONSENSUS"
    /\ << "CONSENSUS", current_ticker >> \in traded_keys
    /\ ~HasFirstLeg(trades, current_ticker)

\* ---- C29
\* The first leg of the market of the cycle is recorded and not hedged when
\* the step is over.
UnhedgedAfter ==
    /\ market.ticker \in DOMAIN arb_positions'
    /\ ~arb_positions'[market.ticker].hedged
\* The hedge condition at the asks the cycle observed: first-leg price plus
\* opposite ask below 1 USD and a contract count of at least 1.
HedgeConditionMet(pos) ==
    LET opposite_price == AskOf(market, Opposite(pos.side))
    IN  /\ opposite_price > 0
        /\ pos.price + opposite_price < ONE_CONTRACT
        /\ Min(pos.contracts.num \div pos.contracts.den,
               (ARBITRAGE_MAX_BET_USD - ARBITRAGE_BET_EPSILON) \div opposite_price) >= 1
\* C29: a cycle that runs to its end without an exception never leaves the
\* first leg of the current market unhedged while the hedge condition is
\* met at the asks of that cycle: the hedge Trade is appended in that same
\* cycle.
C29_HedgeRetriedEveryCycle ==
    [][ (CycleCompletes /\ UnhedgedAfter) =>
            ~HedgeConditionMet(arb_positions'[market.ticker]) ]_vars
\* What the hedge block does when the cycle reaches it with an unhedged
\* first leg and the hedge condition met: it appends the hedge Trade on the
\* opposite side.
C29_HedgeWhenReached ==
    [][ ( /\ pc = "hedge"
          /\ market.ticker \in DOMAIN arb_positions
          /\ ~arb_positions[market.ticker].hedged
          /\ HedgeConditionMet(arb_positions[market.ticker]) ) =>
            /\ Len(trades') = Len(trades) + 1
            /\ trades'[Len(trades')].strategy = "ARBITRAGE_HEDGE"
            /\ trades'[Len(trades')].buy_ticker = market.ticker
            /\ trades'[Len(trades')].buy_side =
                   Opposite(arb_positions[market.ticker].side) ]_vars
\* A cycle is about to end in the CONSENSUS or CONSENSUS_2 block with the
\* first leg of the current market unhedged and the hedge condition met, in
\* a run without any exception.
C29_EdgeNotTaken ==
    /\ variant = "bot" /\ faults = 0
    /\ pc \in {"consensus", "consensus_2"}
    /\ market.ticker \in DOMAIN arb_positions
    /\ ~arb_positions[market.ticker].hedged
    /\ HedgeConditionMet(arb_positions[market.ticker])
    /\ Candidate(IF pc = "consensus" THEN "CONSENSUS" ELSE "CONSENSUS_2")
    /\ IF pc = "consensus"
       THEN ConsensusCheck(config, trades, now, CandidatePrice) # "ok"
       ELSE Consensus2Check(config, trades, now, CandidatePrice)
               \in {"daily loss cap", "weekly loss cap", "rolling win rate"}

\* ---- C30
\* The BTC history holds a sample at least 15 minutes older than the cycle.
History15Sufficient ==
    /\ Len(btc_prices) >= 2
    /\ HasReference(btc_prices, now, MOMENTUM_15_WINDOW_SECONDS)
\* PREVIOUS and MOMENTUM have traded for the market of the cycle.
RolloverTraded(keys) ==
    /\ << "PREVIOUS", market.ticker >> \in keys
    /\ << "MOMENTUM", market.ticker >> \in keys
\* C30: an undecided pair whose precondition becomes satisfied while its
\* market is still current is evaluated in that cycle and becomes decided;
\* for MOMENTUM_15: in a run without exception or restart, a cycle on a
\* market for which PREVIOUS and MOMENTUM have traded, with a BTC sample at
\* least 15 minutes old, ends with the (MOMENTUM_15, market) pair decided.
C30_EvaluatedUntilTerminal ==
    [][ ( /\ CycleCompletes /\ faults' = 0
          /\ RolloverTraded(traded_keys')
          /\ History15Sufficient ) =>
            << "MOMENTUM_15", market.ticker >> \in traded_keys' ]_vars
\* What the MOMENTUM_15 block does when it is reached with a previous
\* identifier held, the pair undecided and the history sufficient: it
\* appends the Trade.
C30_Momentum15WhenHeld ==
    [][ ( /\ pc = "momentum_15"
          /\ pending_previous # NoTicker
          /\ << "MOMENTUM_15", market.ticker >> \notin traded_keys
          /\ History15Sufficient ) =>
            /\ Len(trades') = Len(trades) + 1
            /\ trades'[Len(trades')].strategy = "MOMENTUM_15"
            /\ trades'[Len(trades')].buy_ticker = market.ticker ]_vars
\* The MOMENTUM_15 block is reached with sufficient history and the pair
\* undecided, after PREVIOUS and MOMENTUM traded for the market and the
\* previous identifier was cleared, in a run without exception or restart.
C30_HistoryButNoPrevious ==
    /\ variant = "bot" /\ faults = 0
    /\ pc = "momentum_15"
    /\ pending_previous = NoTicker
    /\ RolloverTraded(traded_keys)
    /\ << "MOMENTUM_15", market.ticker >> \notin traded_keys
    /\ History15Sufficient

\* ---- C31
\* The poll of a cycle in which only the price feed failed: the buffer is
\* left as it was and the step counts one fault.
FeedFailedOnly ==
    /\ pc = "top" /\ cycles' = cycles + 1
    /\ btc_prices' = btc_prices
    /\ faults' = faults + 1
    /\ current_ticker' # NoTicker
    /\ market' # NoMarket
    /\ market'.yes_ask > 0
\* A settlement scan in which a lookup failed and no save was attempted.
ScanLookupFailed == ScanStep /\ scanned'.failed # {} /\ trades' = trades
\* The PREVIOUS block when it appends nothing, so that no save can raise:
\* its only external call is the previous-market lookup.
PreviousWithoutSave ==
    variant = "bot" /\ pc = "previous" /\ trades' = trades
\* Price feed and settlement lookups: a failure leaves buffer and ledger
\* unchanged and the cycle goes on to its next step.
C31_FeedAndScanIsolated ==
    [][ /\ FeedFailedOnly => (pc' \in {"scan", "scan_15"} /\ trades' = trades)
        /\ ScanLookupFailed =>
              (pc' \in {"previous", "decide_15"} /\ btc_prices' = btc_prices) ]_vars
\* C31: a failure of a single external call (price feed, previous-market
\* lookup, settlement lookup) leaves price buffer and ledger unchanged and
\* does not abort the cycle: the next step of the same cycle is evaluated.
C31_ExternalFailureIsolated ==
    [][ /\ FeedFailedOnly => (pc' \in {"scan", "scan_15"} /\ trades' = trades)
        /\ ScanLookupFailed =>
              (pc' \in {"previous", "decide_15"} /\ btc_prices' = btc_prices)
        /\ PreviousWithoutSave =>
              (pc' = "momentum" /\ btc_prices' = btc_prices) ]_vars
\* The cycle goes on after a failed feed poll: the MOMENTUM block is reached
\* with no sample of this cycle in the buffer.
C31_FeedFailureSurvived ==
    /\ variant = "bot" /\ pc = "momentum" /\ faults = 1
    /\ btc_prices # << >>
    /\ btc_prices[Len(btc_prices)][1] < now

\* ---- C32
\* bot.py is started again on the ledger file.
BotRestarts == variant = "bot" /\ pid' = pid + 1
RowsOf(ts, strategy, ticker) ==
    {i \in DOMAIN ts : ts[i].strategy = strategy /\ ts[i].buy_ticker = ticker}
LedgerTickers(ts) == {ts[i].buy_ticker : i \in DOMAIN ts} \ {NoTicker}
\* Every pair with a Trade in the ledger is in the decision index after
\* the restart.
C32_DecisionIndexRebuilt ==
    [][ BotRestarts =>
          /\ trades' = csv
          /\ \A i \in DOMAIN csv :
                csv[i].buy_ticker # NoTicker => PairOf(csv[i]) \in traded_keys' ]_vars
\* C32: after a restart every pair with a Trade in the ledger is in the
\* decision index, the signal entries of a market hold the side of its
\* recorded PREVIOUS and MOMENTUM Trades, and a market with a recorded first
\* leg and no hedge has an unhedged arbitrage position.
C32_RestartTransparent ==
    [][ BotRestarts =>
          /\ \A i \in DOMAIN csv :
                csv[i].buy_ticker # NoTicker => PairOf(csv[i]) \in traded_keys'
          /\ \A t \in LedgerTickers(csv) :
                \A strategy \in {"PREVIOUS", "MOMENTUM"} :
                    RowsOf(csv, strategy, t) # {} =>
                        /\ t \in DOMAIN signals'
                        /\ \E i \in RowsOf(csv, strategy, t) :
                              signals'[t][strategy] = csv[i].buy_side
          /\ \A t \in LedgerTickers(csv) :
                ( /\ RowsOf(csv, "ARBITRAGE", t) # {}
                  /\ RowsOf(csv, "ARBITRAGE_HEDGE", t) = {} ) =>
                    /\ t \in DOMAIN arb_positions'
                    /\ ~arb_positions'[t].hedged ]_vars
\* After a restart the hedge block is reached on the still-current market:
\* the ledger holds its first leg and no hedge, the hedge condition is met
\* at the asks of the cycle, and the process holds no arbitrage position
\* for the market.
C32_HedgeLostByRestart ==
    /\ variant = "bot" /\ pid = 2 /\ pc = "hedge"
    /\ RowsOf(trades, "ARBITRAGE_HEDGE", market.ticker) = {}
    /\ market.ticker \notin DOMAIN arb_positions
    /\ \E i \in RowsOf(trades, "ARBITRAGE", market.ticker) :
          /\ trades[i].time < now
          /\ trades[i].price_usd # NoValue
          /\ trades[i].price_usd[1] > 0
          /\ HedgeConditionMet([side |-> trades[i].buy_side,
                                price |-> trades[i].price_usd[1],
                                contracts |-> Frac(STAKE_USD, trades[i].price_usd[1])])

\* ---- C33
\* A cell read as a number, an empty cell counting as zero.
ZeroIfBlank(cell) == IF cell = NoValue THEN 0 ELSE cell[1]
RECURSIVE LenientProfit(_, _)
LenientProfit(ts, S) ==
    IF S = {} THEN 0
    ELSE LET i == CHOOSE k \in S : TRUE
         IN  ZeroIfBlank(ts[i].profit_usd) + LenientProfit(ts, S \ {i})
BankrollCalled == call.fn = "consensus_bankroll"
SettleCalled == call.fn = "settle"
\* C33: an empty numeric cell of a ledger row is treated as zero: the
\* bankroll is computed without an error as the initial bankroll plus the
\* profits of the settled risk-managed rows, an empty profit counting 0,
\* and a pending row with an empty stake or contracts cell whose market has
\* settled receives its outcome; a row without outcome is not counted.
C33_MalformedIsZero ==
    /\ BankrollCalled =>
          /\ ~call.raised
          /\ call.value = INITIAL_BANKROLL_USD
                  + LenientProfit(call.rows, SettledConsensusRows(call.rows))
    /\ SettleCalled => IsSettled(call.after)
\* What the code does: a row without outcome, and an empty cell of a row
\* the computation does not read, raise nothing and count nothing; an
\* empty profit cell of a settled risk-managed row raises; a pending row
\* with an empty stake or contracts cell is left unsettled.
C33_EmptyCellRaises ==
    /\ BankrollCalled =>
          /\ call.raised <=>
                \E i \in SettledConsensusRows(call.rows) :
                    call.rows[i].profit_usd = NoValue
          /\ ~call.raised =>
                call.value = INITIAL_BANKROLL_USD
                    + NetProfit(call.rows, SettledConsensusRows(call.rows))
    /\ SettleCalled =>
          /\ call.blank = "none" => IsSettled(call.after)
          /\ call.blank # "none" => call.after = call.before
\* The bankroll was asked for on a ledger with a settled risk-managed row
\* whose profit cell is empty, and the call raised.
C33_BankrollRaised ==
    /\ BankrollCalled /\ call.raised
    /\ call.blank # 0
    /\ Len(call.rows) = MaxRows
\* The settlement loop has left a row with an empty contracts cell pending
\* although its market has settled.
C33_RowNeverSettles ==
    /\ SettleCalled /\ call.blank = "contracts"
    /\ result[call.before.buy_ticker] \in Sides
    /\ ~IsSettled(call.after)

\* ---- C34
\* The rows of a ledger that the runs of the model have appended: the
\* ledgers of Init hold risk-managed rows of old markets only.
HasRow(ts, strategy, ticker, side) ==
    \E j \in DOMAIN ts :
        /\ ts[j].strategy = strategy
        /\ ts[j].buy_ticker = ticker
        /\ ts[j].buy_side = side
DerivedFromSignals(ts) ==
    \A i \in DOMAIN ts :
        ts[i].buy_ticker \in Tickers =>
            /\ ts[i].strategy \in ConsensusStrategies =>
                  /\ HasRow(ts, "PREVIOUS", ts[i].buy_ticker, ts[i].buy_side)
                  /\ HasRow(ts, "MOMENTUM", ts[i].buy_ticker, ts[i].buy_side)
            /\ ts[i].strategy = "PREVIOUS_2" =>
                  HasRow(ts, "PREVIOUS", ts[i].buy_ticker, ts[i].buy_side)
\* C34: every CONSENSUS or CONSENSUS_2 Trade of a market comes with a
\* PREVIOUS and a MOMENTUM Trade of that market on the same side, and every
\* PREVIOUS_2 Trade with a PREVIOUS Trade on the same side, in the ledger
\* in memory and in the ledger file, whatever cycles and restarts happened.
C34_ConsensusHasBothSignals ==
    DerivedFromSignals(trades) /\ DerivedFromSignals(csv)
\* A restarted process whose ledger holds a CONSENSUS and a PREVIOUS_2
\* Trade of a market of the run.
C34_Witness ==
    /\ pid = 2
    /\ \E i, j \in DOMAIN trades :
          /\ trades[i].strategy = "CONSENSUS"
          /\ trades[j].strategy = "PREVIOUS_2"
          /\ trades[i].buy_ticker \in Tickers
          /\ trades[j].buy_ticker = trades[i].buy_ticker

\* ---- C35
\* A Trade was appended in memory and the save that follows it raised.
SaveFailedAfterAppend ==
    /\ AppendedRows # {}
    /\ faults' = faults + 1
    /\ csv' = csv
DecidedAfter(t) ==
    IF variant = "bot" THEN PairOf(t) \in traded_keys'
    ELSE t.buy_ticker \in traded_tickers'
\* C35: when save_trades raises right after a Trade was appended in memory,
\* the pair of the Trade is decided all the same, so that no later cycle
\* appends a second Trade for it.
C35_DecidedDespiteSaveFailure ==
    [][ SaveFailedAfterAppend =>
          \A i \in AppendedRows : DecidedAfter(trades'[i]) ]_vars
\* The same for momentum_15.py alone, whose except branch marks the ticker.
C35_Momentum15MarksOnFailure ==
    [][ (variant = "momentum_15" /\ SaveFailedAfterAppend) =>
          \A i \in AppendedRows : DecidedAfter(trades'[i]) ]_vars
\* momentum_15.py holds a Trade in memory that is not in the file, with
\* its ticker marked as traded.
C35_Momentum15Marked ==
    /\ variant = "momentum_15"
    /\ Len(trades) > Len(csv)
    /\ trades[Len(trades)].buy_ticker \in traded_tickers
\* bot.py has appended a second Trade for a pair whose first Trade it holds
\* in memory.
C35_SecondTrade ==
    /\ variant = "bot"
    /\ \E i, j \in DOMAIN trades :
          i < j /\ PairOf(trades[i]) = PairOf(trades[j]) /\ trades[i].time < trades[j].time

\* ---- C36
PositivePriceAndContracts(t) ==
    /\ t.price_usd # NoValue /\ t.price_usd[1] > 0
    /\ t.contracts # NoValue /\ t.contracts[1] > 0
\* C36: every Trade of the ledger, of every strategy and of both programs,
\* has price > 0 and contracts > 0.
C36_PositivePriceAndContracts ==
    \A i \in DOMAIN trades : PositivePriceAndContracts(trades[i])
\* The same for the strategies and the program that test the price before
\* they record a Trade: every strategy of bot.py but PREVIOUS, MOMENTUM and
\* MOMENTUM_15, and momentum_15.py.
C36_GuardedStrategiesPositive ==
    \A i \in DOMAIN trades :
        (variant = "momentum_15" \/ trades[i].strategy \notin SignalStrategies)
            => PositivePriceAndContracts(trades[i])
\* bot.py has recorded a PREVIOUS Trade at price 0 with 0 contracts.
C36_ZeroPriceTrade ==
    /\ variant = "bot"
    /\ \E i \in DOMAIN trades :
          /\ trades[i].strategy = "PREVIOUS"
          /\ trades[i].price_usd = Val(0)
          /\ trades[i].contracts = Val(0)
          /\ trades[i].stake_usd = Val(STAKE_USD)
\* momentum_15.py has met a side without an ask and marked the market
\* without recording a Trade.
C36_Momentum15Skipped ==
    /\ variant = "momentum_15"
    /\ \E t \in traded_tickers :
          /\ \A i \in DOMAIN trades : trades[i].buy_ticker # t
          /\ \A k \in DOMAIN orders : orders[k].ticker # t

\* ---- C37
\* The fields of a Trade that are fixed when it is appended.
DecisionFields(t) ==
    << t.time, t.strategy, t.previous_ticker, t.previous_result, t.buy_ticker,
       t.buy_side, t.stake_usd, t.price_usd, t.contracts, t.order_id >>
DecisionStep == pc \notin {"top", "scan", "scan_15", "fn"}
\* C37: the settlement scan adds and removes no row and leaves the
\* decision fields of every row as they were; a decision step leaves every
\* existing row as it was and at its place; and the rows of the file are
\* never removed, reordered or changed in their decision fields.
C37_LedgerFrame ==
    [][ /\ ScanStep =>
              /\ Len(trades') = Len(trades)
              /\ \A i \in DOMAIN trades :
                    DecisionFields(trades'[i]) = DecisionFields(trades[i])
        /\ DecisionStep =>
              /\ Len(trades') >= Len(trades)
              /\ \A i \in DOMAIN trades : trades'[i] = trades[i]
        /\ \A i \in DOMAIN csv :
              /\ i \in DOMAIN csv'
              /\ DecisionFields(csv'[i]) = DecisionFields(csv[i]) ]_vars
\* A scan has just resolved a row of the run that is followed by a later
\* row, and the result is on file.
C37_Witness ==
    /\ AfterScan
    /\ csv = SavedFile(variant, trades, csv)
    /\ \E i, j \in DOMAIN trades :
          /\ i < j
          /\ i \in scanned.queried
          /\ IsSettled(trades[i])
          /\ trades[i].stake_usd # NoValue
          /\ trades[i].stake_usd[1] > 0
          /\ ~IsSettled(trades[j])

\* ---- C38
\* A momentum side of the given window is derived in the step: bot.py
\* appends the Trade of the strategy, momentum_15.py calls place_order.
SideDerived(strategy) ==
    \/ \E i \in AppendedRows : trades'[i].strategy = strategy
    \/ variant = "momentum_15" /\ strategy = "MOMENTUM_15"
          /\ Len(orders') > Len(orders)
\* The buffer entries used by a derivation at `time`: the reference is the
\* last entry at least one window old, the current price the last entry.
ReferenceIndex(prices, time, window) ==
    LET older == {k \in DOMAIN prices : prices[k][1] <= time - window}
    IN  CHOOSE k \in older : \A j \in older : j <= k
\* C38: whenever a momentum side is derived, the reference sample is another
\* buffer entry than the one used as current price, and strictly older.
C38_ReferenceIsOlderSample ==
    [][ \A strategy \in MomentumStrategies :
          SideDerived(strategy) =>
              /\ ReferenceIndex(btc_prices, now, WindowOf(strategy)) < Len(btc_prices)
              /\ btc_prices[ReferenceIndex(btc_prices, now, WindowOf(strategy))][1]
                    < btc_prices[Len(btc_prices)][1] ]_vars
\* The same for the cycles whose own feed poll succeeded.
C38_OlderWhenPollSucceeded ==
    [][ \A strategy \in MomentumStrategies :
          ( /\ SideDerived(strategy)
            /\ btc_prices[Len(btc_prices)][1] = now ) =>
              /\ ReferenceIndex(btc_prices, now, WindowOf(strategy)) < Len(btc_prices)
              /\ btc_prices[ReferenceIndex(btc_prices, now, WindowOf(strategy))][1]
                    < now ]_vars
\* The ledger holds a momentum Trade of this process decided when the
\* newest sample of the buffer was already one window old: the sample was
\* compared with itself and the side is "no".
C38_ComparedWithItself ==
    \E i \in DOMAIN trades :
        /\ trades[i].strategy \in MomentumStrategies
        /\ trades[i].buy_ticker \in Tickers
        /\ \E k \in DOMAIN btc_prices :
              btc_prices[k][1] <= trades[i].time - WindowOf(trades[i].strategy)
        /\ ~\E k \in DOMAIN btc_prices :
              /\ btc_prices[k][1] > trades[i].time - WindowOf(trades[i].strategy)
              /\ btc_prices[k][1] <= trades[i].time
        /\ trades[i].buy_side = "no"

\* ---- C39
\* No risk-managed Trade of the ledger is unresolved.
NothingPending(ts) ==
    \A i \in DOMAIN ts : ts[i].strategy \in ConsensusStrategies => IsSettled(ts[i])
\* The ledger closes a risk gate: the bankroll is used up, or the rolling
\* window is full with a win rate below break-even.
GateClosed(ts) ==
    \/ BankrollOf(ts) <= 0
    \/ WindowFull(config, ts) /\ BelowBreakEven(config, ts)
Absorbed(ts) == NothingPending(ts) /\ GateClosed(ts)
TradeSettled == call.fn = "settle_trade"
DefaultFee == config.CONSENSUS_FEE_PCT = 0
WinIffProfit(t) == (t.outcome = "WIN") <=> (t.profit_usd[1] > 0)
\* C40: with the default fee fraction 0, a settled Trade has outcome WIN
\* exactly when its net profit is > 0.
C40_WinIffPositiveProfit ==
    (TradeSettled /\ DefaultFee) => WinIffProfit(call.after)
\* The same for the Trades bought at a positive price.
C40_WinIffProfitAtPositivePrice ==
    (TradeSettled /\ DefaultFee /\ call.before.price_usd[1] > 0)
        => WinIffProfit(call.after)
\* A Trade recorded at price 0 with 0 contracts has settled on its own
\* side: outcome WIN with a net profit of minus the stake.
C40_WinWithLoss ==
    /\ TradeSettled /\ DefaultFee
    /\ call.before.price_usd = Val(0)
    /\ call.after.outcome = "WIN"
    /\ call.after.profit_usd = Val(-STAKE_USD)
\* A Trade bought at 0.40 has settled as a WIN with a positive net profit.
C40_WinWithProfit ==
    /\ TradeSettled /\ DefaultFee
    /\ call.before.price_usd = Val(40 * CENT)
    /\ call.after.outcome = "WIN"
    /\ call.after.profit_usd[1] > 0
====
